---- MODULE Spec2Model ----
(***************************************************************************)
(* A model of the argparse command (src/generic/argparse.c): the per-      *)
(* interpreter cache of parsed element definitions, the element-definition *)
(* parser, and the matcher / allocator / constraint sweep of               *)
(* ArgparseCmdProc2.  Tcl values are modelled by their string              *)
(* representation: a word is a string, a list is the string of its words   *)
(* separated by blanks.  Dictionaries that the code iterates are kept as   *)
(* a key sequence plus a value function, so that iteration order is the    *)
(* insertion order, as in Tcl.                                             *)
(*                                                                         *)
(* Left out of the model: the -help text, -validate expressions other     *)
(* than one operand, the -type checks other than digit and integer, the    *)
(* binding of -upvar variables in the caller's frames, templates that      *)
(* hold backslashes, and the failure of memory allocation.  The            *)
(* definitions and arguments examined do not use them.                     *)
(***************************************************************************)
EXTENDS Integers, Sequences, FiniteSets, TLC

\* the null pointer
NULL == 0

\* the element of a set of one element.  Only({e : x \in {v}}) is e with x
\* the value of v: v is evaluated before e, and only once however often e
\* uses x, as a variable of the program holds the value of an expression
Only(S) == CHOOSE r \in S : TRUE

(***************************************************************************)
(* Strings                                                                 *)
(***************************************************************************)
CharAt(s, i) == SubSeq(s, i, i)

StartsWith(s, p) == Len(p) <= Len(s) /\ SubSeq(s, 1, Len(p)) = p

Letters == {"a", "b", "c", "d", "e", "f", "g", "h", "i", "j", "k", "l", "m",
            "n", "o", "p", "q", "r", "s", "t", "u", "v", "w", "x", "y", "z"}

Digits == {"0", "1", "2", "3", "4", "5", "6", "7", "8", "9"}

\* \w of the regular expressions
IsWordChar(c) == c \in Letters \cup Digits \cup {"_"}

\* [\w-] of the regular expressions
IsNameChar(c) == IsWordChar(c) \/ c = "-"

\* ^\w[\w-]*$
IsSwitchName(s) ==
    /\ Len(s) > 0
    /\ IsWordChar(CharAt(s, 1))
    /\ \A i \in 2..Len(s) : IsNameChar(CharAt(s, i))

\* the collating order of the characters the model uses (lsort, ASCII order)
Collation == "-0123456789_abcdefghijklmnopqrstuvwxyz|"

CharRank(c) ==
    IF \E i \in 1..Len(Collation) : CharAt(Collation, i) = c
    THEN CHOOSE i \in 1..Len(Collation) : CharAt(Collation, i) = c
    ELSE 0

RECURSIVE StrLess(_, _)
StrLess(a, b) ==
    IF Len(b) = 0 THEN FALSE
    ELSE IF Len(a) = 0 THEN TRUE
    ELSE IF CharAt(a, 1) = CharAt(b, 1) THEN StrLess(Tail(a), Tail(b))
    ELSE CharRank(CharAt(a, 1)) < CharRank(CharAt(b, 1))

RECURSIVE IntToStr(_)
IntToStr(n) ==
    LET d == CHOOSE c \in Digits : CharRank(c) - CharRank("0") = n % 10
    IN  IF n < 10 THEN d ELSE IntToStr(n \div 10) \o d

(***************************************************************************)
(* Lists                                                                   *)
(***************************************************************************)
\* Tcl_ListObjGetElements: the elements of a list given by its string
\* representation: the words are separated by the blanks that stand outside
\* every pair of braces, and a word in braces is the text between them (the
\* lists of the model have their braces balanced and around whole words)
ListElems(s) ==
    LET open == {i \in 1..Len(s) : CharAt(s, i) = "{"}
        close == {i \in 1..Len(s) : CharAt(s, i) = "}"}
        Level(i) == Cardinality({j \in open : j < i}) - Cardinality({j \in close : j < i})
        Words(stops) ==
            LET starts == {i \in 1..Len(s) : i \notin stops /\ (i = 1 \/ i - 1 \in stops)}
                Last(i) == IF \E e \in stops : e > i
                           THEN (CHOOSE e \in stops : e > i /\ \A m \in i..e : m \notin stops \/ m = e) - 1
                           ELSE Len(s)
                Word(i, e) == IF CharAt(s, i) = "{" /\ CharAt(s, e) = "}" /\ e > i
                              THEN SubSeq(s, i + 1, e - 1)
                              ELSE SubSeq(s, i, e)
            IN  [k \in 1..Cardinality(starts) |->
                    Only({Word(i, Last(i))
                          : i \in {CHOOSE i \in starts
                                       : Cardinality({j \in starts : j < i}) = k - 1}})]
    IN  Only({Words(stops)
              : stops \in {{i \in 1..Len(s) : CharAt(s, i) = " " /\ Level(i) = 0}}})

\* the string representation of one list element
QuoteWord(w) ==
    IF Len(w) = 0 \/ (\E i \in 1..Len(w) : CharAt(w, i) = " ")
    THEN "{" \o w \o "}"
    ELSE w

RECURSIVE JoinListWithSeparator(_, _)
JoinListWithSeparator(list, separator) ==
    IF Len(list) = 0 THEN ""
    ELSE IF Len(list) = 1 THEN list[1]
    ELSE list[1] \o separator \o JoinListWithSeparator(Tail(list), separator)

\* the string representation of a list of words
TclList(list) ==
    JoinListWithSeparator([i \in 1..Len(list) |-> QuoteWord(list[i])], " ")

InList(item, list) == \E i \in 1..Len(list) : list[i] = item

MergeTwoLists(list1, list2) == list1 \o list2

ListRange(list, start, end) ==
    LET listLen == Len(list)
        s == IF start >= listLen THEN listLen ELSE start
        e == IF end >= listLen THEN listLen - 1 ELSE end
    IN  IF s > e \/ s >= listLen THEN << >> ELSE SubSeq(list, s + 1, e + 1)

\* Tcl_ListObjReplace(list, first, count, new elements)
ListReplace(list, first, count, new) ==
    LET n == Len(list)
        f == IF first < 0 THEN 0 ELSE IF first > n THEN n ELSE first
        c == IF count < 0 THEN 0 ELSE IF f + count > n THEN n - f ELSE count
    IN  SubSeq(list, 1, f) \o new \o SubSeq(list, f + c + 1, n)

RECURSIVE InsertSorted(_, _)
InsertSorted(x, sorted) ==
    IF Len(sorted) = 0 THEN << x >>
    ELSE IF StrLess(x, sorted[1]) THEN << x >> \o sorted
    ELSE << sorted[1] >> \o InsertSorted(x, Tail(sorted))

RECURSIVE EvalLsort(_)
EvalLsort(list) ==
    IF Len(list) = 0 THEN << >>
    ELSE Only({InsertSorted(list[Len(list)], sorted)
               : sorted \in {EvalLsort(SubSeq(list, 1, Len(list) - 1))}})

SplitString(str, sep) ==
    IF Len(sep) = 0 THEN [i \in 1..Len(str) |-> CharAt(str, i)]
    ELSE LET RECURSIVE Split(_, _)
             Split(start, i) ==
                 IF i > Len(str)
                 THEN << SubSeq(str, start, Len(str)) >>
                 ELSE IF CharAt(str, i) = sep
                      THEN << SubSeq(str, start, i - 1) >> \o Split(i + 1, i + 1)
                      ELSE Split(start, i + 1)
         IN  Split(1, 1)

(***************************************************************************)
(* Dictionaries                                                            *)
(***************************************************************************)
\* an inner dictionary is a function on the set of its keys
DictKeyExists(dict, key) == key \in DOMAIN dict

DictPut(dict, key, value) ==
    [x \in DOMAIN dict \cup {key} |-> IF x = key THEN value ELSE dict[x]]

DictRemove(dict, key) == [x \in DOMAIN dict \ {key} |-> dict[x]]

EmptyDict == [x \in {} |-> ""]

\* a dictionary whose iteration order matters: keys in insertion order
EmptyODict == [k |-> << >>, v |-> EmptyDict]

ODictKeyExists(d, key) == key \in DOMAIN d.v

ODictPut(d, key, value) ==
    [k |-> IF key \in DOMAIN d.v THEN d.k ELSE Append(d.k, key),
     v |-> DictPut(d.v, key, value)]

DictKeys(d) == d.k

NestedDictKeyExists(d, outerKey, innerKey) ==
    outerKey \in DOMAIN d.v /\ innerKey \in DOMAIN d.v[outerKey]

\* the nested dictionary left as it is
UnsetNestedDictKeyKept(d, outerKey, innerKey) == d

UnsetNestedDictKey(d, outerKey, innerKey) ==
    IF outerKey \notin DOMAIN d.v THEN d
    ELSE ODictPut(d, outerKey, DictRemove(d.v[outerKey], innerKey))

SetNestedDictKey(d, outerKey, innerKey, value) ==
    ODictPut(d, outerKey,
             DictPut(IF outerKey \in DOMAIN d.v THEN d.v[outerKey] ELSE EmptyDict,
                     innerKey, value))

\* the values of the result dictionary are lists kept as strings
DictLappend(d, key, valuesList) ==
    ODictPut(d, key,
             TclList((IF key \in DOMAIN d.v THEN ListElems(d.v[key]) ELSE << >>)
                     \o valuesList))

DictLappendElem(d, key, value) == DictLappend(d, key, << value >>)

(***************************************************************************)
(* Prefix matching                                                         *)
(***************************************************************************)
\* Tcl_GetIndexFromObj: the index in the table of the entry equal to the key,
\* else (unless exact) of the only entry the non-empty key abbreviates,
\* else 0
GetIndexFromObj(table, key, useExact) ==
    LET same == {i \in 1..Len(table) : table[i] = key}
        abbrev == {i \in 1..Len(table) : StartsWith(table[i], key)}
    IN  IF same # {} THEN CHOOSE i \in same : \A j \in same : i <= j
        ELSE IF useExact \/ Len(key) = 0 \/ Cardinality(abbrev) # 1 THEN 0
        ELSE CHOOSE i \in abbrev : TRUE

\* "a, b, or c": the list of alternatives of Tcl's lookup messages
MustBe(table) ==
    IF Len(table) = 0 THEN ""
    ELSE IF Len(table) = 1 THEN table[1]
    ELSE IF Len(table) = 2 THEN table[1] \o " or " \o table[2]
    ELSE JoinListWithSeparator(SubSeq(table, 1, Len(table) - 1), ", ")
             \o ", or " \o table[Len(table)]

\* PrefixMatch over a static table: [code, result]
PrefixMatch(tableList, matchObj, useExact) ==
    LET index == GetIndexFromObj(tableList, matchObj, useExact)
    IN  IF index > 0 THEN [code |-> "ok", result |-> tableList[index]]
        ELSE [code |-> "error",
              result |-> "bad option \"" \o matchObj \o "\": must be " \o MustBe(tableList)]

\* tcl::prefix match ?-message messageObj? ?-exact? tableList matchObj
EvalPrefixMatch(tableList, matchObj, useExact, messageObj) ==
    LET index == GetIndexFromObj(tableList, matchObj, useExact)
        several == ~useExact /\ Len(matchObj) > 0
                   /\ Cardinality({i \in 1..Len(tableList) :
                                      StartsWith(tableList[i], matchObj)}) > 1
    IN  IF index > 0 THEN [code |-> "ok", result |-> tableList[index]]
        ELSE [code |-> "error",
              result |-> (IF several THEN "ambiguous " ELSE "bad ") \o messageObj
                         \o " \"" \o matchObj \o "\": must be " \o MustBe(tableList)]

(***************************************************************************)
(* Global switches (argparse.h)                                            *)
(***************************************************************************)
GLOBAL_SWITCH_BOOLEAN == 0
GLOBAL_SWITCH_ENUM == 1
GLOBAL_SWITCH_EQUALARG == 2
GLOBAL_SWITCH_EXACT == 3
GLOBAL_SWITCH_INLINE == 4
GLOBAL_SWITCH_KEEP == 5
GLOBAL_SWITCH_LEVEL == 6
GLOBAL_SWITCH_LONG == 7
GLOBAL_SWITCH_MIXED == 8
GLOBAL_SWITCH_NORMALIZE == 9
GLOBAL_SWITCH_PASS == 10
GLOBAL_SWITCH_RECIPROCAL == 11
GLOBAL_SWITCH_TEMPLATE == 12
GLOBAL_SWITCH_VALIDATE == 13
GLOBAL_SWITCH_HELP == 14
GLOBAL_SWITCH_HELPLEVEL == 15
GLOBAL_SWITCH_PFIRST == 16
GLOBAL_SWITCH_HELPRET == 17
GLOBAL_SWITCH_COUNT == 18

globalSwitches ==
    << "-boolean", "-enum", "-equalarg", "-exact", "-inline", "-keep", "-level",
       "-long", "-mixed", "-normalize", "-pass", "-reciprocal", "-template",
       "-validate", "-help", "-helplevel", "-pfirst", "-helpret" >>

GLOBAL_SWITCH_TAKES_ARG_MASK ==
    {GLOBAL_SWITCH_ENUM, GLOBAL_SWITCH_LEVEL, GLOBAL_SWITCH_PASS,
     GLOBAL_SWITCH_TEMPLATE, GLOBAL_SWITCH_VALIDATE, GLOBAL_SWITCH_HELP,
     GLOBAL_SWITCH_HELPLEVEL}

\* GlobalSwitchesContext ctx = {0}: the set of the bits set, and the values
EmptyCtx == [globalSwitches |-> {}, values |-> [i \in {} |-> ""]]

HAS_GLOBAL_SWITCH(ctx, id) == id \in ctx.globalSwitches

GLOBAL_SWITCH_ARG(ctx, id) == ctx.values[id]

SetGlobalSwitch(ctx, id, hasValue, value) ==
    [globalSwitches |-> ctx.globalSwitches \cup {id},
     values |-> IF id \in GLOBAL_SWITCH_TAKES_ARG_MASK /\ hasValue
                THEN [i \in DOMAIN ctx.values \cup {id} |->
                         IF i = id THEN value ELSE ctx.values[i]]
                ELSE ctx.values]

RECURSIVE Pow2(_)
Pow2(n) == IF n = 0 THEN 1 ELSE 2 * Pow2(n - 1)

RECURSIVE BitMask(_)
BitMask(ids) ==
    IF ids = {} THEN 0
    ELSE LET i == CHOOSE j \in ids : TRUE IN Pow2(i) + BitMask(ids \ {i})

\* "%d:" of the bit mask, then "name=value;" of each value-carrying switch set
GenerateGlobalSwitchesKey(ctx) ==
    LET RECURSIVE Values(_)
        Values(i) ==
            IF i >= GLOBAL_SWITCH_COUNT THEN ""
            ELSE (IF i \in GLOBAL_SWITCH_TAKES_ARG_MASK /\ HAS_GLOBAL_SWITCH(ctx, i)
                     /\ i \in DOMAIN ctx.values
                  THEN Tail(globalSwitches[i + 1]) \o "=" \o ctx.values[i] \o ";"
                  ELSE "") \o Values(i + 1)
    IN  IntToStr(BitMask(ctx.globalSwitches)) \o ":" \o Values(0)

(***************************************************************************)
(* Element switches (argparse.h)                                           *)
(***************************************************************************)
elementSwitches ==
    << "-alias", "-argument", "-boolean", "-catchall", "-default", "-enum",
       "-forbid", "-ignore", "-imply", "-keep", "-key", "-level", "-optional",
       "-parameter", "-pass", "-reciprocal", "-require", "-required",
       "-standalone", "-switch", "-upvar", "-validate", "-value", "-type",
       "-allow", "-help", "-errormsg", "-hsuppress" >>

elementSwitchesWithArgsNames ==
    << "alias", "default", "enum", "forbid", "imply", "key", "pass", "require",
       "validate", "value", "type", "allow", "help", "errormsg" >>

allowedTypes ==
    << "alnum", "alpha", "ascii", "boolean", "control", "dict", "digit",
       "double", "graph", "integer", "list", "lower", "print", "punct", "space",
       "upper", "wideinteger", "wordchar", "xdigit" >>

elementSwitchesImplyElementArg ==
    << "optional", "required", "catchall", "upvar", "type" >>

conflictSwitches ==
    << "parameter", "ignore", "required", "argument", "upvar", "boolean",
       "enum", "type", "allow" >>

conflictSwitchesRows ==
    << << "alias", "boolean", "value", "argument", "imply" >>,
       << "key", "pass" >>,
       << "boolean", "default" >>,
       << "boolean", "value" >>,
       << "boolean", "inline", "catchall" >>,
       << "default", "value" >>,
       << "validate" >>,
       << "upvar", "boolean", "enum" >>,
       << "forbid" >> >>

disallowedSwitchesRows ==
    << << "switch", "optional", "catchall" >>,
       << "switch", "optional", "upvar" >>,
       << "switch", "optional", "default" >>,
       << "switch", "optional", "boolean" >>,
       << "switch", "optional", "type" >>,
       << "parameter", "optional", "required" >> >>

requireSwitchesPair0 == << "reciprocal", "level", "errormsg" >>

requireSwitchesPair1 == << "require", "upvar", "validate" >>

elemSwConstraints == << "require", "forbid", "allow" >>

\* misc_presentSwitchObj
present == "present"

(***************************************************************************)
(* ArgumentDefinition                                                      *)
(***************************************************************************)
\* InitArgumentDefinition; catchall is << >> for NULL, else << name >>
InitArgumentDefinition ==
    [defDict |-> EmptyODict, aliasesDict |-> EmptyDict, orderList |-> << >>,
     switchesList |-> << >>, upvarsDict |-> EmptyDict, omittedDict |-> EmptyODict,
     catchall |-> << >>]

CheckAliasesAreUnique(aliasesDict, optDict) ==
    Only({\A i \in 1..Len(aliasElems) : ~DictKeyExists(aliasesDict, aliasElems[i])
          : aliasElems \in {ListElems(optDict["alias"])}})

BuildAliasJoinString(optDict, name) ==
    LET Join(aliasElems) ==
            LET RECURSIVE J(_)
                J(i) == IF i > Len(aliasElems) THEN ""
                        ELSE aliasElems[i] \o "|" \o J(i + 1)
            IN  "-" \o J(1) \o name
    IN  Only({Join(aliasElems) : aliasElems \in {ListElems(optDict["alias"])}})

\* the end of the longest run of [\w-] characters of s that starts at i
NameRun(s, i) ==
    CHOOSE j \in (i - 1)..Len(s) :
        /\ \A k \in i..j : IsNameChar(CharAt(s, k))
        /\ (j = Len(s) \/ ~IsNameChar(CharAt(s, j + 1)))

\* ^(?:(-)(?:(.*)\|)?)?(\w[\w-]*)([=?!*^]*)$
regexpShorthand(word) ==
    LET hasMinus == Len(word) > 0 /\ CharAt(word, 1) = "-"
        body == IF hasMinus THEN Tail(word) ELSE word
        Groups(bar) ==
            LET rest == SubSeq(body, bar + 1, Len(body))
                Flags(e) ==
                    LET flags == SubSeq(rest, e + 1, Len(rest))
                    IN  [matched |-> e > 0 /\ \A i \in 1..Len(flags) :
                                        CharAt(flags, i) \in {"=", "?", "!", "*", "^"},
                         minus |-> IF hasMinus THEN "-" ELSE "",
                         alias |-> IF bar > 0 THEN SubSeq(body, 1, bar - 1) ELSE "",
                         name |-> SubSeq(rest, 1, e),
                         flags |-> flags]
            IN  Only({Flags(e)
                      : e \in {IF Len(rest) > 0 /\ IsWordChar(CharAt(rest, 1))
                               THEN NameRun(rest, 1) ELSE 0}})
        LastBar(bars) == IF bars = {} THEN 0 ELSE CHOOSE i \in bars : \A j \in bars : j <= i
    IN  Only({Groups(bar)
              : bar \in {LastBar(IF hasMinus
                                 THEN {i \in 1..Len(body) : CharAt(body, i) = "|"}
                                 ELSE {})}})

\* ^\w[\w-]*( \w[\w-]*)*$
regexpSwitchAlias(str) ==
    Only({\A i \in 1..Len(parts) : IsSwitchName(parts[i]) : parts \in {SplitString(str, " ")}})

\* string map {% name} of the -template value (templates without backslashes)
EvalStringMap(name, template) ==
    LET RECURSIVE Map(_)
        Map(i) == IF i > Len(template) THEN ""
                  ELSE (IF CharAt(template, i) = "%" THEN name
                        ELSE CharAt(template, i)) \o Map(i + 1)
    IN  Map(1)

\* the value of a key in a dictionary given as a list of keys and values
ListDictGet(str, key) ==
    LET Get(e) ==
            LET at == {i \in 1..Len(e) : i % 2 = 1 /\ i < Len(e) /\ e[i] = key}
            IN  IF at = {} THEN << >>
                ELSE << e[(CHOOSE i \in at : \A j \in at : j <= i) + 1] >>
    IN  Only({Get(e) : e \in {ListElems(str)}})

(***************************************************************************)
(* ParseElementDefinitions                                                 *)
(***************************************************************************)
\* one pass of the loop "Read element definition switches": the switch at
\* the word j is read, with its argument when it takes one
ReadElementSwitch(elemListElems, j, optDict) ==
    LET Read(prefix) ==
            LET switchName == Tail(prefix.result)
            IN  IF prefix.code = "error"
                THEN [code |-> "error", msg |-> prefix.result, optDict |-> optDict, j |-> j]
                ELSE IF PrefixMatch(elementSwitchesWithArgsNames, switchName, TRUE).code
                        = "error"
                THEN [code |-> "ok", msg |-> "",
                      optDict |-> DictPut(optDict, switchName, ""), j |-> j + 1]
                ELSE IF j = Len(elemListElems)
                THEN [code |-> "error",
                      msg |-> "-" \o switchName \o " requires an argument",
                      optDict |-> optDict, j |-> j]
                ELSE [code |-> "ok", msg |-> "",
                      optDict |-> DictPut(optDict, switchName, elemListElems[j + 1]),
                      j |-> j + 2]
    IN  Only({Read(prefix)
              : prefix \in {PrefixMatch(elementSwitches, elemListElems[j], TRUE)}})

\* "Read element definition switches": the words after the first one
RECURSIVE ReadElementSwitches(_, _, _)
ReadElementSwitches(elemListElems, j, optDict) ==
    IF j > Len(elemListElems) THEN [code |-> "ok", msg |-> "", optDict |-> optDict]
    ELSE Only({IF read.code = "error"
               THEN [code |-> "error", msg |-> read.msg, optDict |-> optDict]
               ELSE ReadElementSwitches(elemListElems, read.j, read.optDict)
               : read \in {ReadElementSwitch(elemListElems, j, optDict)}})

\* the shorthand read for its leading - only
ShorthandFlagsMinusOnly(optDict, m) ==
    DictPut(optDict, IF Len(m.minus) > 0 THEN "switch" ELSE "parameter", "")

\* "Process the first element of the element definition", shorthand branch
ShorthandFlags(optDict, m) ==
    LET flag == [c \in {"=", "?", "!", "*", "^"} |->
                    IF c = "=" THEN "argument" ELSE IF c = "?" THEN "optional"
                    ELSE IF c = "!" THEN "required" ELSE IF c = "*" THEN "catchall"
                    ELSE "upvar"]
        names == {IF Len(m.minus) > 0 THEN "switch" ELSE "parameter"}
                     \cup {flag[CharAt(m.flags, k)] : k \in 1..Len(m.flags)}
                     \cup (IF Len(m.alias) > 0 THEN {"alias"} ELSE {})
    IN  [x \in DOMAIN optDict \cup names |->
            IF x = "alias" /\ Len(m.alias) > 0 THEN TclList(SplitString(m.alias, "|"))
            ELSE IF x \in names THEN ""
            ELSE optDict[x]]

\* "Add -argument switch if particular switches are presented" and
\* "Add -required switch for parameters"
DeriveArgumentRequired(optDict) ==
    IF DictKeyExists(optDict, "switch")
    THEN IF \E l \in 1..Len(elementSwitchesImplyElementArg) :
                DictKeyExists(optDict, elementSwitchesImplyElementArg[l])
         THEN DictPut(optDict, "argument", "")
         ELSE optDict
    ELSE IF (DictKeyExists(optDict, "catchall") \/ DictKeyExists(optDict, "optional"))
            /\ ~DictKeyExists(optDict, "required")
         THEN DictPut(optDict, "optional", "")
         ELSE DictPut(optDict, "required", "")

\* "Check requirements and conflicts", "Check for disallowed combinations":
\* the message of the first failing rule, or "" when there is none
CheckRequirementsAndConflicts(ctx, optDict) ==
    LET req == {m \in 1..Len(requireSwitchesPair0) :
                   DictKeyExists(optDict, requireSwitchesPair0[m])
                   /\ ~DictKeyExists(optDict, requireSwitchesPair1[m])}
        con == {np \in (1..Len(conflictSwitches)) \X (1..5) :
                   /\ np[2] <= Len(conflictSwitchesRows[np[1]])
                   /\ DictKeyExists(optDict, conflictSwitches[np[1]])
                   /\ DictKeyExists(optDict, conflictSwitchesRows[np[1]][np[2]])}
        dis == {n \in 1..Len(disallowedSwitchesRows) :
                   \A t \in 1..3 : DictKeyExists(optDict, disallowedSwitchesRows[n][t])}
        m0 == CHOOSE m \in req : \A o \in req : m <= o
        c0 == CHOOSE np \in con : \A o \in con :
                  np[1] < o[1] \/ (np[1] = o[1] /\ np[2] <= o[2])
        d0 == CHOOSE n \in dis : \A o \in dis : n <= o
    IN  IF req # {}
        THEN "-" \o requireSwitchesPair0[m0] \o " requires -" \o requireSwitchesPair1[m0]
        ELSE IF con # {}
        THEN "-" \o conflictSwitches[c0[1]] \o " and -"
                 \o conflictSwitchesRows[c0[1]][c0[2]] \o " conflict"
        ELSE IF HAS_GLOBAL_SWITCH(ctx, GLOBAL_SWITCH_INLINE) /\ DictKeyExists(optDict, "upvar")
        THEN "-upvar and -inline conflict"
        ELSE IF dis # {}
        THEN "-" \o disallowedSwitchesRows[d0][1] \o " -" \o disallowedSwitchesRows[d0][2]
                 \o " -" \o disallowedSwitchesRows[d0][3] \o " is a disallowed combination"
        ELSE ""

\* the replacement for the elements that declare -boolean only
ReplaceBooleanDeclaredOnly(ctx, optDict) ==
    IF DictKeyExists(optDict, "boolean")
    THEN DictPut(DictPut(optDict, "default", "0"), "value", "1")
    ELSE optDict

\* -boolean that gives the default 0 and no value
ReplaceBooleanDefaultOnly(ctx, optDict) ==
    IF DictKeyExists(optDict, "boolean") THEN DictPut(optDict, "default", "0") ELSE optDict

\* "Replace -boolean with -default 0 -value 1"
ReplaceBoolean(ctx, optDict) ==
    IF (/\ HAS_GLOBAL_SWITCH(ctx, GLOBAL_SWITCH_BOOLEAN)
        /\ DictKeyExists(optDict, "switch")
        /\ ~DictKeyExists(optDict, "argument")
        /\ ~DictKeyExists(optDict, "upvar")
        /\ ~DictKeyExists(optDict, "default")
        /\ ~DictKeyExists(optDict, "value")
        /\ ~DictKeyExists(optDict, "required"))
       \/ DictKeyExists(optDict, "boolean")
    THEN DictPut(DictPut(optDict, "default", "0"), "value", "1")
    ELSE optDict

\* "Insert default -level if -upvar is used"
InsertDefaultLevel(ctx, optDict) ==
    IF DictKeyExists(optDict, "upvar") /\ ~DictKeyExists(optDict, "level")
    THEN DictPut(optDict, "level",
                 IF HAS_GLOBAL_SWITCH(ctx, GLOBAL_SWITCH_LEVEL)
                 THEN GLOBAL_SWITCH_ARG(ctx, GLOBAL_SWITCH_LEVEL) ELSE "1")
    ELSE optDict

\* "Compute default output key if -ignore, -key, and -pass aren't used"
ComputeDefaultKey(ctx, optDict, name) ==
    IF ~DictKeyExists(optDict, "ignore") /\ ~DictKeyExists(optDict, "key")
       /\ ~DictKeyExists(optDict, "pass")
    THEN DictPut(optDict, "key",
                 IF HAS_GLOBAL_SWITCH(ctx, GLOBAL_SWITCH_TEMPLATE)
                 THEN EvalStringMap(name, GLOBAL_SWITCH_ARG(ctx, GLOBAL_SWITCH_TEMPLATE))
                 ELSE name)
    ELSE optDict

\* "Look up named enumeration lists and validation expressions"
LookUpEnumValidate(ctx, optDict) ==
    IF DictKeyExists(optDict, "enum") /\ HAS_GLOBAL_SWITCH(ctx, GLOBAL_SWITCH_ENUM)
    THEN LET g == ListDictGet(GLOBAL_SWITCH_ARG(ctx, GLOBAL_SWITCH_ENUM), optDict["enum"])
         IN  IF g # << >> THEN DictPut(optDict, "enum", g[1]) ELSE optDict
    ELSE IF DictKeyExists(optDict, "validate")
    THEN LET g == IF HAS_GLOBAL_SWITCH(ctx, GLOBAL_SWITCH_VALIDATE)
                  THEN ListDictGet(GLOBAL_SWITCH_ARG(ctx, GLOBAL_SWITCH_VALIDATE),
                                   optDict["validate"])
                  ELSE << >>
         IN  IF g # << >>
             THEN DictPut(DictPut(optDict, "validateMsg", optDict["validate"] \o " validation"),
                          "validate", g[1])
             ELSE DictPut(optDict, "validateMsg", "validation: " \o optDict["validate"])
    ELSE optDict

\* "Build parameter and switches definition lists" up to "Map from upvar keys
\* back to element names": the lists of the definition, or the error
BuildLists(argCtx, optDict, name) ==
    LET Fail(m) == [code |-> "error", msg |-> m, argCtx |-> argCtx]
        Ok(a) == [code |-> "ok", msg |-> "", argCtx |-> a]
        Aliases(aliasElems) ==
            Ok([argCtx EXCEPT
                   !.aliasesDict =
                       [a \in DOMAIN @ \cup {aliasElems[f] : f \in 1..Len(aliasElems)}
                           |-> IF \E f \in 1..Len(aliasElems) : aliasElems[f] = a
                               THEN name ELSE @[a]],
                   !.switchesList = Append(@, BuildAliasJoinString(optDict, name))])
        lists ==
            IF DictKeyExists(optDict, "parameter")
            THEN IF DictKeyExists(optDict, "catchall") /\ argCtx.catchall # << >>
                 THEN Fail("multiple catchall parameters: " \o argCtx.catchall[1]
                           \o " and " \o name)
                 ELSE Ok([argCtx EXCEPT
                             !.orderList = Append(@, name),
                             !.catchall = IF DictKeyExists(optDict, "catchall")
                                          THEN << name >> ELSE @])
            ELSE IF ~DictKeyExists(optDict, "alias")
            THEN Ok([argCtx EXCEPT !.switchesList = Append(@, "-" \o name)])
            ELSE IF ~regexpSwitchAlias(optDict["alias"])
            THEN Fail("bad alias: " \o optDict["alias"])
            ELSE IF ~CheckAliasesAreUnique(argCtx.aliasesDict, optDict)
            THEN Fail("element alias collision: " \o optDict["alias"])
            ELSE Only({Aliases(aliasElems) : aliasElems \in {ListElems(optDict["alias"])}})
        Names(l) ==
            LET a1 == l.argCtx
            IN  IF l.code = "error" THEN l
                ELSE IF DictKeyExists(a1.aliasesDict, name)
                THEN Fail("collision of switch -" \o a1.aliasesDict[name]
                          \o " alias with the -" \o name \o " switch")
                ELSE IF DictKeyExists(optDict, "upvar") /\ DictKeyExists(optDict, "key")
                THEN IF DictKeyExists(a1.upvarsDict, optDict["key"])
                     THEN Fail("multiple upvars to the same variable: "
                               \o a1.upvarsDict[optDict["key"]] \o " " \o name)
                     ELSE Ok([a1 EXCEPT !.upvarsDict = DictPut(@, optDict["key"], name)])
                ELSE l
    IN  Only({Names(l) : l \in {lists}})

\* the element from its checks to its entry in the definition: optDict holds
\* the switches read and those the shorthand and the derivation add
SaveElement(ctx, argCtx, optDict, name) ==
    LET Fail(m) == [code |-> "error", msg |-> m, argCtx |-> argCtx]
        Save(opt3) ==
            LET Typed(opt4, lists) ==
                    IF lists.code = "error" THEN lists
                    ELSE IF DictKeyExists(opt4, "type")
                            /\ PrefixMatch(allowedTypes, opt4["type"], TRUE).code = "error"
                    THEN Fail("type " \o opt4["type"]
                              \o " is not in the list of allowed types")
                    ELSE [code |-> "ok", msg |-> "",
                          argCtx |-> [lists.argCtx EXCEPT
                              !.defDict = ODictPut(@, name, opt4),
                              !.omittedDict = ODictPut(@, name, "")]]
            IN  Only({IF lists.code = "error" THEN lists
                      ELSE Only({Typed(opt4, lists)
                                 : opt4 \in {LookUpEnumValidate(ctx, opt3)}})
                      : lists \in {BuildLists(argCtx, opt3, name)}})
        Checked(rule) ==
            IF rule # "" THEN Fail(rule)
            ELSE Only({Only({Only({Save(opt3)
                                   : opt3 \in {ComputeDefaultKey(ctx, l, name)}})
                             : l \in {InsertDefaultLevel(ctx, b)}})
                       : b \in {ReplaceBoolean(ctx, optDict)}})
    IN  IF ODictKeyExists(argCtx.defDict, name)
        THEN Fail("element name collision: " \o name)
        ELSE Only({Checked(rule) : rule \in {CheckRequirementsAndConflicts(ctx, optDict)}})

\* one pass of the loop of ParseElementDefinitions over the definition list
ParseElement(ctx, argCtx, elem) ==
    LET Fail(m) == [code |-> "error", msg |-> m, argCtx |-> argCtx]
        Named(elemListElems, opt0) ==
            LET explicit == DictKeyExists(opt0, "switch") \/ DictKeyExists(opt0, "parameter")
                Shorthand(m) ==
                    IF ~m.matched THEN Fail("bad element shorthand: " \o elemListElems[1])
                    ELSE Only({Only({SaveElement(ctx, argCtx, opt2, m.name)
                                     : opt2 \in {DeriveArgumentRequired(opt1)}})
                               : opt1 \in {ShorthandFlags(opt0, m)}})
            IN  IF Len(elemListElems) = 0 THEN Fail("element definition cannot be empty")
                ELSE IF DictKeyExists(opt0, "switch") /\ DictKeyExists(opt0, "parameter")
                THEN Fail("-switch and -parameter conflict")
                ELSE IF HAS_GLOBAL_SWITCH(ctx, GLOBAL_SWITCH_INLINE)
                        /\ DictKeyExists(opt0, "keep")
                THEN Fail("-inline and -keep conflict")
                ELSE IF ~explicit THEN Only({Shorthand(m)
                                             : m \in {regexpShorthand(elemListElems[1])}})
                ELSE IF ~IsSwitchName(elemListElems[1])
                THEN Fail("bad element name: " \o elemListElems[1])
                ELSE Only({SaveElement(ctx, argCtx, opt2, elemListElems[1])
                           : opt2 \in {DeriveArgumentRequired(opt0)}})
        Read(elemListElems) ==
            Only({IF read.code = "error" THEN Fail(read.msg)
                  ELSE Named(elemListElems, read.optDict)
                  : read \in {ReadElementSwitches(elemListElems, 2, EmptyDict)}})
    IN  Only({Read(elemListElems) : elemListElems \in {ListElems(elem)}})

RECURSIVE ParseElementDefinitions(_, _, _, _)
ParseElementDefinitions(ctx, defListElems, i, argCtx) ==
    IF i > Len(defListElems) THEN [code |-> "ok", msg |-> "", argCtx |-> argCtx]
    ELSE Only({IF r.code = "error" THEN r
               ELSE ParseElementDefinitions(ctx, defListElems, i + 1, r.argCtx)
               : r \in {ParseElement(ctx, argCtx, defListElems[i])}})

(***************************************************************************)
(* ArgparseCmdProc2: "Process constraints and shared key logic"            *)
(***************************************************************************)
\* no reference of the element is verified
VerifyConstraintReferencesNone(defDict, name) == ""

\* "Verify constraint references": the message for the first reference of
\* the element to an element that is not defined, or ""
VerifyConstraintReferences(defDict, name) ==
    LET opt == defDict.v[name]
        Refs(i) == IF DictKeyExists(opt, elemSwConstraints[i])
                   THEN ListElems(opt[elemSwConstraints[i]]) ELSE << >>
        bad == UNION {{<< i, j >> : j \in {x \in 1..Len(Refs(i)) :
                                              ~ODictKeyExists(defDict, Refs(i)[x])}} :
                      i \in 1..Len(elemSwConstraints)}
        b == CHOOSE ij \in bad : \A o \in bad : ij[1] < o[1] \/ (ij[1] = o[1] /\ ij[2] <= o[2])
    IN  IF bad = {} THEN ""
        ELSE name \o " -" \o elemSwConstraints[b[1]] \o " references undefined element: "
                  \o ListElems(opt[elemSwConstraints[b[1]]])[b[2]]

\* no reciprocal requirement is created
CreateReciprocalNone(defDict, name, otherListElems, j) == defDict

\* "Create reciprocal requirements"
RECURSIVE CreateReciprocal(_, _, _, _)
CreateReciprocal(defDict, name, otherListElems, j) ==
    IF j > Len(otherListElems) THEN defDict
    ELSE LET other == otherListElems[j]
             otherOpt == defDict.v[other]
             requireList == IF DictKeyExists(otherOpt, "require")
                            THEN ListElems(otherOpt["require"]) ELSE << >>
         IN  Only({CreateReciprocal(d, name, otherListElems, j + 1)
                   : d \in {ODictPut(defDict, other,
                                     DictPut(otherOpt, "require",
                                             TclList(Append(requireList, name))))}})

\* the shared key logic without "Create forbid constraints on shared keys"
RECURSIVE SharedKeyLogicNoForbid(_, _, _, _)
SharedKeyLogicNoForbid(defDict, name, keyObjs, j) ==
    IF j > Len(keyObjs) THEN [code |-> "ok", msg |-> "", defDict |-> defDict]
    ELSE LET otherName == keyObjs[j]
             opt == defDict.v[name]
             otherOpt == defDict.v[otherName]
         IN  IF name = otherName \/ ~DictKeyExists(otherOpt, "key")
                \/ opt["key"] # otherOpt["key"]
             THEN SharedKeyLogicNoForbid(defDict, name, keyObjs, j + 1)
             ELSE Only({SharedKeyLogicNoForbid(d, name, keyObjs, j + 1)
                        : d \in {IF ~DictKeyExists(opt, "value")
                                 THEN ODictPut(defDict, name, DictPut(opt, "value", name))
                                 ELSE defDict}})

\* the shared key logic that limits the shared keys only against the
\* elements defined after the element name
RECURSIVE SharedKeyLogicLater(_, _, _, _)
SharedKeyLogicLater(defDict, name, keyObjs, j) ==
    IF j > Len(keyObjs) THEN [code |-> "ok", msg |-> "", defDict |-> defDict]
    ELSE LET otherName == keyObjs[j]
             opt == defDict.v[name]
             otherOpt == defDict.v[otherName]
             Fail(m) == [code |-> "error", msg |-> m, defDict |-> defDict]
             d1 == IF ~DictKeyExists(otherOpt, "forbid")
                      \/ ~InList(name, ListElems(otherOpt["forbid"]))
                   THEN ODictPut(defDict, otherName,
                            DictPut(otherOpt, "forbid",
                                TclList(Append(IF DictKeyExists(otherOpt, "forbid")
                                               THEN ListElems(otherOpt["forbid"])
                                               ELSE << >>, name))))
                   ELSE defDict
             Value(d) == IF ~DictKeyExists(opt, "value")
                         THEN ODictPut(d, name, DictPut(d.v[name], "value", name))
                         ELSE d
         IN  IF name = otherName \/ ~DictKeyExists(otherOpt, "key")
                \/ opt["key"] # otherOpt["key"]
             THEN SharedKeyLogicLater(defDict, name, keyObjs, j + 1)
             ELSE IF \E i \in (j + 1)..Len(keyObjs) : keyObjs[i] = name
             THEN Only({SharedKeyLogicLater(d, name, keyObjs, j + 1)
                        : d \in {Only({Value(d) : d \in {d1}})}})
             ELSE IF DictKeyExists(opt, "parameter")
             THEN Fail(name \o " cannot be a parameter because it shares a key with " \o otherName)
             ELSE IF DictKeyExists(opt, "argument")
             THEN Fail(name \o " cannot use -argument because it shares a key with " \o otherName)
             ELSE IF DictKeyExists(opt, "catchall")
             THEN Fail(name \o " cannot use -catchall because it shares a key with " \o otherName)
             ELSE IF DictKeyExists(opt, "default") /\ DictKeyExists(otherOpt, "default")
             THEN Fail(name \o " and " \o otherName
                       \o " cannot both use -default because they share a key")
             ELSE Only({SharedKeyLogicLater(d, name, keyObjs, j + 1)
                        : d \in {Only({Value(d) : d \in {d1}})}})

\* "Perform shared key logic" of element name against the j-th key onwards
RECURSIVE SharedKeyLogic(_, _, _, _)
SharedKeyLogic(defDict, name, keyObjs, j) ==
    IF j > Len(keyObjs) THEN [code |-> "ok", msg |-> "", defDict |-> defDict]
    ELSE LET otherName == keyObjs[j]
             opt == defDict.v[name]
             otherOpt == defDict.v[otherName]
             Fail(m) == [code |-> "error", msg |-> m, defDict |-> defDict]
             d1 == IF ~DictKeyExists(otherOpt, "forbid")
                      \/ ~InList(name, ListElems(otherOpt["forbid"]))
                   THEN ODictPut(defDict, otherName,
                            DictPut(otherOpt, "forbid",
                                TclList(Append(IF DictKeyExists(otherOpt, "forbid")
                                               THEN ListElems(otherOpt["forbid"])
                                               ELSE << >>, name))))
                   ELSE defDict
             Value(d) == IF ~DictKeyExists(opt, "value")
                         THEN ODictPut(d, name, DictPut(d.v[name], "value", name))
                         ELSE d
         IN  IF name = otherName \/ ~DictKeyExists(otherOpt, "key")
                \/ opt["key"] # otherOpt["key"]
             THEN SharedKeyLogic(defDict, name, keyObjs, j + 1)
             ELSE IF DictKeyExists(opt, "parameter")
             THEN Fail(name \o " cannot be a parameter because it shares a key with " \o otherName)
             ELSE IF DictKeyExists(opt, "argument")
             THEN Fail(name \o " cannot use -argument because it shares a key with " \o otherName)
             ELSE IF DictKeyExists(opt, "catchall")
             THEN Fail(name \o " cannot use -catchall because it shares a key with " \o otherName)
             ELSE IF DictKeyExists(opt, "default") /\ DictKeyExists(otherOpt, "default")
             THEN Fail(name \o " and " \o otherName
                       \o " cannot both use -default because they share a key")
             ELSE Only({SharedKeyLogic(d, name, keyObjs, j + 1)
                        : d \in {Only({Value(d) : d \in {d1}})}})

\* one pass of the loop over the keys: the constraints of the element idx
ProcessElementConstraints(ctx, defDict, keyObjs, idx) ==
    LET name == keyObjs[idx]
        opt == defDict.v[name]
        d1 == IF (HAS_GLOBAL_SWITCH(ctx, GLOBAL_SWITCH_RECIPROCAL)
                  \/ DictKeyExists(opt, "reciprocal"))
                 /\ DictKeyExists(opt, "require")
              THEN CreateReciprocal(defDict, name, ListElems(opt["require"]), 1)
              ELSE defDict
        Shared(d) == IF DictKeyExists(opt, "key")
                     THEN SharedKeyLogic(d, name, keyObjs, 1)
                     ELSE [code |-> "ok", msg |-> "", defDict |-> d]
        Checked(refs) == IF refs # ""
                         THEN [code |-> "error", msg |-> refs, defDict |-> defDict]
                         ELSE Only({Shared(d) : d \in {d1}})
    IN  Only({Checked(refs) : refs \in {VerifyConstraintReferences(defDict, name)}})

\* the loop over the keys of the working copy's defDict
RECURSIVE ProcessConstraints(_, _, _, _)
ProcessConstraints(ctx, defDict, keyObjs, idx) ==
    IF idx > Len(keyObjs) THEN [code |-> "ok", msg |-> "", defDict |-> defDict]
    ELSE Only({IF shared.code = "error" THEN shared
               ELSE ProcessConstraints(ctx, shared.defDict, keyObjs, idx + 1)
               : shared \in {ProcessElementConstraints(ctx, defDict, keyObjs, idx)}})

(***************************************************************************)
(* Error messages, validation                                              *)
(***************************************************************************)
\* the list joined with commas only
JoinWithCommas(list, word) == JoinListWithSeparator(list, ", ")

\* the list with its last element prefixed by the word, joined as the
\* Build...Error functions join it
JoinWithWord(list, word) ==
    LET len == Len(list)
        editableList == IF len > 1
                        THEN ListReplace(list, len - 1, 1, << word \o " " \o list[len] >>)
                        ELSE list
    IN  JoinListWithSeparator(editableList, IF len > 2 THEN ", " ELSE " ")

BuildBadSwitchError(argObj, switchesList) ==
    "bad switch \"" \o argObj \o "\": must be " \o JoinWithWord(switchesList, "or")

BuildMissingSwitchesError(missingList) ==
    "missing required switch" \o (IF Len(missingList) > 1 THEN "es" ELSE "") \o ": "
        \o JoinWithWord(missingList, "and")

BuildMissingParameterError(missingList) ==
    "missing required parameter" \o (IF Len(missingList) > 1 THEN "s" ELSE "") \o ": "
        \o JoinWithWord(missingList, "and")

\* the value is taken as it is given
ValidateHelperAsGiven(ctx, nameObj, optDictObj, argObj) ==
    [code |-> "ok", result |-> argObj, scope |-> "kept", arg |-> argObj]

\* Tcl_GetBoolean: a decimal numeral is true when it is not zero; the words
\* true, false, yes, no, on, off count, and so do their beginnings that
\* stand for one of them only
GetBoolean(s) ==
    LET trues == {"t", "tr", "tru", "true", "y", "ye", "yes", "on"}
        falses == {"f", "fa", "fal", "fals", "false", "n", "no", "of", "off"}
        body == IF Len(s) > 0 /\ CharAt(s, 1) = "-" THEN Tail(s) ELSE s
        numeral == Len(body) > 0 /\ \A i \in 1..Len(body) : CharAt(body, i) \in Digits
    IN  IF numeral
        THEN [code |-> "ok", value |-> \E i \in 1..Len(body) : CharAt(body, i) # "0"]
        ELSE IF s \in trues \cup falses THEN [code |-> "ok", value |-> s \in trues]
        ELSE [code |-> "error", value |-> FALSE]

\* Tcl_ExprBooleanObj for the -validate expression, with the variables arg
\* and name as ValidateHelper has set them.  The expressions examined are
\* one operand: $arg, $name, or a word
EvalExprBoolean(expr, nameObj, argObj) ==
    GetBoolean(IF expr = "$arg" THEN argObj ELSE IF expr = "$name" THEN nameObj ELSE expr)

\* Tcl_SubstObj for the -errormsg text.  The texts examined hold no $ and
\* no [, and are their own substitution
EvalSubst(str) == str

\* ValidateHelper for one value (listFlag = 0): the validated value or the
\* error, the value examined, and what has become of the variables arg,
\* name and opt of the caller: kept, unset, or left set
ValidateHelper(ctx, nameObj, optDictObj, argObj) ==
    IF DictKeyExists(optDictObj, "enum")
    THEN LET r == EvalPrefixMatch(ListElems(optDictObj["enum"]), argObj,
                                  HAS_GLOBAL_SWITCH(ctx, GLOBAL_SWITCH_EXACT),
                                  nameObj \o " value")
         IN  [code |-> r.code, result |-> r.result, scope |-> "kept", arg |-> argObj]
    ELSE IF DictKeyExists(optDictObj, "validate")
    THEN LET b == EvalExprBoolean(optDictObj["validate"], nameObj, argObj)
         IN  IF b.code = "ok" /\ b.value
             THEN [code |-> "ok", result |-> argObj, scope |-> "unset", arg |-> argObj]
             ELSE IF DictKeyExists(optDictObj, "errormsg")
             THEN [code |-> "error", result |-> EvalSubst(optDictObj["errormsg"]),
                   scope |-> "set", arg |-> argObj]
             ELSE [code |-> "error",
                   result |-> nameObj \o " value \"" \o argObj \o "\" fails "
                              \o (IF DictKeyExists(optDictObj, "validateMsg")
                                  THEN optDictObj["validateMsg"] ELSE "validation"),
                   scope |-> "unset", arg |-> argObj]
    ELSE [code |-> "ok", result |-> argObj, scope |-> "kept", arg |-> argObj]

\* the variables of the caller after ValidateHelper has examined a value:
\* Tcl_ObjSetVar2 and Tcl_UnsetVar on opt, name and arg.  The string of the
\* element dictionary has its keys in sorted order, the model does not keep
\* the order in which they were put
ValidateHelperVars(callerVars, nameObj, optDictObj, validated) ==
    LET keys == DOMAIN optDictObj
        used == {"opt", "name", "arg"}
        Set(optString) ==
            [x \in DOMAIN callerVars \cup used |->
                IF x = "opt" THEN optString
                ELSE IF x = "name" THEN nameObj
                ELSE IF x = "arg" THEN validated.arg
                ELSE callerVars[x]]
        Words(sorted) ==
            [i \in 1..(2 * Len(sorted)) |->
                IF i % 2 = 1 THEN sorted[(i + 1) \div 2] ELSE optDictObj[sorted[i \div 2]]]
        Sorted(less) ==
            [k \in 1..Cardinality(keys) |->
                CHOOSE x \in keys : Cardinality({y \in keys : less[<< y, x >>]}) = k - 1]
    IN  IF validated.scope = "kept" THEN callerVars
        ELSE IF validated.scope = "unset"
        THEN [x \in DOMAIN callerVars \ used |-> callerVars[x]]
        ELSE Only({Set(optString)
                   : optString \in
                         {Only({TclList(words)
                                : words \in
                                      {Only({Words(sorted)
                                             : sorted \in
                                                   {Only({Sorted(less)
                                                          : less \in
                                                                {[pair \in keys \X keys |->
                                                                     StrLess(pair[1], pair[2])]}})}})}})}})

\* ValidateHelper for a list of values (listFlag = 1): the validated values,
\* or the error of the first value that fails
ValidateHelperList(ctx, nameObj, optDictObj, argList) ==
    LET Results(rs) ==
            LET bad == {i \in 1..Len(argList) : rs[i].code = "error"}
            IN  IF bad = {}
                THEN [code |-> "ok", result |-> [i \in 1..Len(argList) |-> rs[i].result],
                      scope |-> IF Len(argList) = 0 THEN "kept" ELSE rs[Len(argList)].scope,
                      arg |-> IF Len(argList) = 0 THEN "" ELSE argList[Len(argList)]]
                ELSE rs[CHOOSE i \in bad : \A j \in bad : i <= j]
    IN  Only({Results(rs)
              : rs \in {[i \in 1..Len(argList) |->
                            ValidateHelper(ctx, nameObj, optDictObj, argList[i])]}})

\* the validity test of TypeChecker: digit is Tcl_StringMatch(arg, "[0-9]*"),
\* integer is a decimal numeral; the other types are not examined
IsValidType(typeStr, arg) ==
    IF typeStr = "digit" THEN Len(arg) > 0 /\ CharAt(arg, 1) \in Digits
    ELSE IF typeStr = "integer"
    THEN LET body == IF Len(arg) > 0 /\ CharAt(arg, 1) = "-" THEN Tail(arg) ELSE arg
         IN  Len(body) > 0 /\ \A i \in 1..Len(body) : CharAt(body, i) \in Digits
    ELSE TRUE

\* TypeChecker over the list of values (one value: a list of one)
TypeChecker(nameObj, optDictObj, argList) ==
    LET bad == {i \in 1..Len(argList) : ~IsValidType(optDictObj["type"], argList[i])}
        b == CHOOSE i \in bad : \A j \in bad : i <= j
    IN  IF ~DictKeyExists(optDictObj, "type") \/ bad = {} THEN [code |-> "ok", result |-> ""]
        ELSE [code |-> "error",
              result |-> nameObj \o " value \"" \o argList[b] \o "\" is not of the type "
                         \o optDictObj["type"]]

\* the regular expression that recognises a switch token:
\* ^- [-?] (\w[\w-]*) [(?:(=)(.*))?] $
EvalMatchRegexpGroups(ctx, arg) ==
    LET noMatch == [matched |-> FALSE, name |-> "", equal |-> "", val |-> ""]
        long == HAS_GLOBAL_SWITCH(ctx, GLOBAL_SWITCH_LONG)
        first == IF long /\ Len(arg) > 2 /\ CharAt(arg, 2) = "-" THEN 3 ELSE 2
        e == NameRun(arg, first)
    IN  IF Len(arg) < first \/ CharAt(arg, 1) # "-" \/ ~IsWordChar(CharAt(arg, first))
        THEN noMatch
        ELSE IF e = Len(arg)
        THEN [matched |-> TRUE, name |-> SubSeq(arg, first, e), equal |-> "", val |-> ""]
        ELSE IF HAS_GLOBAL_SWITCH(ctx, GLOBAL_SWITCH_EQUALARG) /\ CharAt(arg, e + 1) = "="
        THEN [matched |-> TRUE, name |-> SubSeq(arg, first, e), equal |-> "=",
              val |-> SubSeq(arg, e + 2, Len(arg))]
        ELSE noMatch

(***************************************************************************)
(* ArgparseCmdProc2: "Perform switch logic"                                *)
(***************************************************************************)
\* the invocation fails: cleanupOnError.  kind names the part of the
\* procedure that raised the error
Fail(inv, kind, msg) ==
    [inv EXCEPT !.pc = "error", !.kind = kind, !.msg = msg]

\* the constraints are left as they are
IgnoreAllConstraintsNone(defDict, keyObjs, idx) == defDict

\* "If the switch is standalone, ignore all constraints"
RECURSIVE IgnoreAllConstraints(_, _, _)
IgnoreAllConstraints(defDict, keyObjs, idx) ==
    IF idx > Len(keyObjs) THEN defDict
    ELSE LET other == keyObjs[idx]
             opt == defDict.v[other]
             unset == [k \in DOMAIN opt \ {"required", "require", "forbid", "allow"} |-> opt[k]]
             optional == IF DictKeyExists(unset, "parameter")
                         THEN DictPut(unset, "optional", "") ELSE unset
         IN  Only({IgnoreAllConstraints(d, keyObjs, idx + 1)
                   : d \in {ODictPut(defDict, other, optional)}})

\* the lookup of a switch name without the aliases
SwitchLookupNoAlias(ctx, argDefCtx, matchedName) ==
    LET defDict == argDefCtx.defDict
        matchList1 == SelectSeq(defDict.k, LAMBDA k : DictKeyExists(defDict.v[k], "switch"))
        Matched(prefix) == IF prefix.code = "ok" THEN [found |-> TRUE, name |-> prefix.result]
                           ELSE IF ODictKeyExists(defDict, "")
                           THEN [found |-> TRUE, name |-> ""]
                           ELSE [found |-> FALSE, name |-> matchedName]
    IN  IF NestedDictKeyExists(defDict, matchedName, "switch")
        THEN [found |-> TRUE, name |-> matchedName]
        ELSE IF ~HAS_GLOBAL_SWITCH(ctx, GLOBAL_SWITCH_EXACT)
        THEN Only({Matched(prefix)
                   : prefix \in {EvalPrefixMatch(matchList1, matchedName, FALSE, "switch")}})
        ELSE Matched([code |-> "error", result |-> ""])

\* "Process switch aliases" and "Perform switch name lookup": the element
\* the switch name of a token stands for
SwitchLookup(ctx, argDefCtx, matchedName) ==
    LET defDict == argDefCtx.defDict
        name == IF DictKeyExists(argDefCtx.aliasesDict, matchedName)
                THEN argDefCtx.aliasesDict[matchedName] ELSE matchedName
        matchList1 == SelectSeq(defDict.k, LAMBDA k : DictKeyExists(defDict.v[k], "switch"))
        Matched(prefix) == IF prefix.code = "ok" THEN [found |-> TRUE, name |-> prefix.result]
                           ELSE IF ODictKeyExists(defDict, "")
                           THEN [found |-> TRUE, name |-> ""]
                           ELSE [found |-> FALSE, name |-> name]
    IN  IF NestedDictKeyExists(defDict, name, "switch")
        THEN [found |-> TRUE, name |-> name]
        ELSE IF ~HAS_GLOBAL_SWITCH(ctx, GLOBAL_SWITCH_EXACT)
        THEN Only({Matched(prefix)
                   : prefix \in {EvalPrefixMatch(matchList1, name, FALSE, "switch")}})
        ELSE Matched([code |-> "error", result |-> ""])

\* the storing of the value of a switch, each switch taken as optional
StoreSwitchValueOptional(base, opt, argv, arg, m, name, normal) ==
    LET ctx == base.ctx
        hasKey == DictKeyExists(opt, "key")
        hasPass == DictKeyExists(opt, "pass")
        shown == IF HAS_GLOBAL_SWITCH(ctx, GLOBAL_SWITCH_NORMALIZE) THEN normal ELSE arg
        Put(rd, value, passed) ==
            LET r1 == IF hasKey THEN ODictPut(rd, opt["key"], value) ELSE rd
            IN  IF hasPass THEN DictLappend(r1, opt["pass"], passed) ELSE r1
        \* the implied arguments go to the front of what is left of argv
        Imply(i, left) ==
            IF DictKeyExists(opt, "imply")
            THEN [i EXCEPT !.argv = ListReplace(left, 0, 0, ListElems(opt["imply"])),
                           !.argDefCtx.defDict = UnsetNestedDictKey(@, name, "imply")]
            ELSE [i EXCEPT !.argv = left]
        Typed(validated, Stored(_)) ==
            IF validated.code = "error" THEN Fail(base, "switch", validated.result)
            ELSE Only({IF t.code = "error" THEN Fail(base, "switch", t.result)
                       ELSE Stored(validated.result)
                       : t \in {TypeChecker(normal, opt,
                                            IF DictKeyExists(opt, "catchall") THEN validated.result
                                            ELSE << validated.result >>)}})
        StoreAll(values) ==
            [base EXCEPT !.pc = "allocate", !.argv = values,
                         !.resultDict = Put(@, TclList(values), << shown >> \o values)]
        StoreOne(value) ==
            Imply([base EXCEPT !.resultDict =
                      Put(@, IF DictKeyExists(opt, "optional")
                             THEN TclList(<< "", value >>) ELSE value,
                          IF HAS_GLOBAL_SWITCH(ctx, GLOBAL_SWITCH_NORMALIZE)
                          THEN << normal, value >>
                          ELSE IF m.equal = "=" THEN << arg >>
                          ELSE << arg, value >>)],
                  ListRange(argv, 1, base.end))
    IN  IF DictKeyExists(opt, "catchall")
        THEN Only({Typed(vl, StoreAll) : vl \in {ValidateHelperList(ctx, normal, opt, argv)}})
        ELSE IF ~DictKeyExists(opt, "argument")
        THEN IF m.equal = "="
             THEN Fail(base, "switch", normal \o " doesn't allow an argument")
             ELSE Imply([base EXCEPT !.resultDict =
                            Put(@, IF DictKeyExists(opt, "value") THEN opt["value"] ELSE "",
                                << shown >>)],
                        argv)
        ELSE IF Len(argv) > 0
        THEN Only({Typed(v1, StoreOne) : v1 \in {ValidateHelper(ctx, normal, opt, argv[1])}})
        ELSE Imply([base EXCEPT !.resultDict = Put(@, "", << shown >>)], argv)

\* "Validate switch arguments and store values into the result dict" and
\* the insertion of the implied arguments: base is the invocation with the
\* element name marked as present, opt the options of the element, argv the
\* tokens after the switch (with the value of -name=value at their head)
StoreSwitchValue(base, opt, argv, arg, m, name, normal) ==
    LET ctx == base.ctx
        hasKey == DictKeyExists(opt, "key")
        hasPass == DictKeyExists(opt, "pass")
        shown == IF HAS_GLOBAL_SWITCH(ctx, GLOBAL_SWITCH_NORMALIZE) THEN normal ELSE arg
        Put(rd, value, passed) ==
            LET r1 == IF hasKey THEN ODictPut(rd, opt["key"], value) ELSE rd
            IN  IF hasPass THEN DictLappend(r1, opt["pass"], passed) ELSE r1
        \* the implied arguments go to the front of what is left of argv
        Imply(i, left) ==
            IF DictKeyExists(opt, "imply")
            THEN [i EXCEPT !.argv = ListReplace(left, 0, 0, ListElems(opt["imply"])),
                           !.argDefCtx.defDict = UnsetNestedDictKey(@, name, "imply")]
            ELSE [i EXCEPT !.argv = left]
        Typed(validated, Stored(_)) ==
            IF validated.code = "error" THEN Fail(base, "switch", validated.result)
            ELSE Only({IF t.code = "error" THEN Fail(base, "switch", t.result)
                       ELSE Stored(validated.result)
                       : t \in {TypeChecker(normal, opt,
                                            IF DictKeyExists(opt, "catchall") THEN validated.result
                                            ELSE << validated.result >>)}})
        \* the outcome with the variables of the caller as the validation left them
        Scoped(outcome, validated) ==
            [outcome EXCEPT !.vars = ValidateHelperVars(@, normal, opt, validated)]
        StoreAll(values) ==
            [base EXCEPT !.pc = "allocate", !.argv = values,
                         !.resultDict = Put(@, TclList(values), << shown >> \o values)]
        StoreOne(value) ==
            Imply([base EXCEPT !.resultDict =
                      Put(@, IF DictKeyExists(opt, "optional")
                             THEN TclList(<< "", value >>) ELSE value,
                          IF HAS_GLOBAL_SWITCH(ctx, GLOBAL_SWITCH_NORMALIZE)
                          THEN << normal, value >>
                          ELSE IF m.equal = "=" THEN << arg >>
                          ELSE << arg, value >>)],
                  ListRange(argv, 1, base.end))
    IN  IF DictKeyExists(opt, "catchall")
        THEN Only({Scoped(Typed(vl, StoreAll), vl)
                   : vl \in {ValidateHelperList(ctx, normal, opt, argv)}})
        ELSE IF ~DictKeyExists(opt, "argument")
        THEN IF m.equal = "="
             THEN Fail(base, "switch", normal \o " doesn't allow an argument")
             ELSE Imply([base EXCEPT !.resultDict =
                            Put(@, IF DictKeyExists(opt, "value") THEN opt["value"] ELSE "",
                                << shown >>)],
                        argv)
        ELSE IF Len(argv) > 0
        THEN Only({Scoped(Typed(v1, StoreOne), v1)
                   : v1 \in {ValidateHelper(ctx, normal, opt, argv[1])}})
        ELSE IF ~DictKeyExists(opt, "optional")
        THEN Fail(base, "switch", normal \o " requires an argument")
        ELSE Imply([base EXCEPT !.resultDict = Put(@, "", << shown >>)], argv)

\* the switch arg stands for the element name: "If the switch is standalone,
\* ignore all constraints", "Keep track of which elements are present", and
\* the storing of its value
StoreSwitch(inv, arg, m, name, lookedUp) ==
    LET d0 == inv.argDefCtx.defDict
        d1 == IF NestedDictKeyExists(d0, name, "standalone")
              THEN IgnoreAllConstraints(d0, d0.k, 1) ELSE d0
        Base(defDict) ==
            [inv EXCEPT !.argDefCtx.defDict = defDict,
                        !.argDefCtx.omittedDict =
                            [k |-> SelectSeq(@.k, LAMBDA x : x # name),
                             v |-> DictRemove(@.v, name)],
                        !.trace = Append(@, << arg, name >>)]
        argv == IF m.equal = "=" THEN ListReplace(inv.argv, 0, 0, << m.val >>) ELSE inv.argv
    IN  Only({StoreSwitchValue(base, base.argDefCtx.defDict.v[name], argv,
                               arg, m, name, "-" \o lookedUp)
              : base \in {Only({Base(SetNestedDictKey(d, name, present, "")) : d \in {d1}})}})

\* a pass of the switch loop that leaves the queue as it is
SwitchStepIdle(inv) == inv

\* one pass of the switch loop that steps over a -- and goes on
SwitchStepOverDashes(inv) ==
    IF Len(inv.argv) = 0 THEN [inv EXCEPT !.pc = "allocate"]
    ELSE LET arg == inv.argv[1]
             popped == [inv EXCEPT !.argv = Tail(@)]
             Aliased(n) == IF DictKeyExists(inv.argDefCtx.aliasesDict, n)
                           THEN inv.argDefCtx.aliasesDict[n] ELSE n
             Found(m, lookup) ==
                 IF ~lookup.found
                 THEN Only({Fail([popped EXCEPT !.argDefCtx.switchesList = sorted],
                                 "switch", BuildBadSwitchError(arg, sorted))
                            : sorted \in {EvalLsort(inv.argDefCtx.switchesList)}})
                 ELSE StoreSwitch(popped, arg, m, lookup.name,
                                  IF lookup.name = "" THEN Aliased(m.name) ELSE lookup.name)
             Matched(m) ==
                 IF ~m.matched
                 THEN IF arg = "--"
                      THEN popped
                      ELSE IF HAS_GLOBAL_SWITCH(inv.ctx, GLOBAL_SWITCH_MIXED)
                              \/ HAS_GLOBAL_SWITCH(inv.ctx, GLOBAL_SWITCH_PFIRST)
                      THEN [popped EXCEPT !.params = Append(@, arg)]
                      ELSE [inv EXCEPT !.pc = "allocate", !.params = inv.argv]
                 ELSE Only({Found(m, lookup)
                            : lookup \in {SwitchLookup(inv.ctx, inv.argDefCtx, m.name)}})
         IN  Only({Matched(m) : m \in {EvalMatchRegexpGroups(inv.ctx, arg)}})

\* one pass of the loop "Process switches, and build the list of parameter
\* arguments"
SwitchStep(inv) ==
    IF Len(inv.argv) = 0 THEN [inv EXCEPT !.pc = "allocate"]
    ELSE LET arg == inv.argv[1]
             popped == [inv EXCEPT !.argv = Tail(@)]
             Aliased(n) == IF DictKeyExists(inv.argDefCtx.aliasesDict, n)
                           THEN inv.argDefCtx.aliasesDict[n] ELSE n
             Found(m, lookup) ==
                 IF ~lookup.found
                 THEN Only({Fail([popped EXCEPT !.argDefCtx.switchesList = sorted],
                                 "switch", BuildBadSwitchError(arg, sorted))
                            : sorted \in {EvalLsort(inv.argDefCtx.switchesList)}})
                 ELSE StoreSwitch(popped, arg, m, lookup.name,
                                  IF lookup.name = "" THEN Aliased(m.name) ELSE lookup.name)
             Matched(m) ==
                 IF ~m.matched
                 THEN IF arg = "--"
                      THEN [popped EXCEPT !.pc = "allocate", !.params = Tail(inv.argv)]
                      ELSE IF HAS_GLOBAL_SWITCH(inv.ctx, GLOBAL_SWITCH_MIXED)
                              \/ HAS_GLOBAL_SWITCH(inv.ctx, GLOBAL_SWITCH_PFIRST)
                      THEN [popped EXCEPT !.params = Append(@, arg)]
                      ELSE [inv EXCEPT !.pc = "allocate", !.params = inv.argv]
                 ELSE Only({Found(m, lookup)
                            : lookup \in {SwitchLookup(inv.ctx, inv.argDefCtx, m.name)}})
         IN  Only({Matched(m) : m \in {EvalMatchRegexpGroups(inv.ctx, arg)}})

\* "Build list of missing required switches"
MissingSwitches(argDefCtx) ==
    LET defDict == argDefCtx.defDict
        Names(missing) ==
            [j \in 1..Len(missing) |->
                IF DictKeyExists(defDict.v[missing[j]], "alias")
                THEN BuildAliasJoinString(defDict.v[missing[j]], missing[j])
                ELSE "-" \o missing[j]]
    IN  Only({Names(missing)
              : missing \in {SelectSeq(defDict.k, LAMBDA k :
                                 /\ DictKeyExists(defDict.v[k], "switch")
                                 /\ ~DictKeyExists(defDict.v[k], present)
                                 /\ DictKeyExists(defDict.v[k], "required"))}})

(***************************************************************************)
(* ArgparseCmdProc2: allocation of the parameters                          *)
(***************************************************************************)
\* an element receives arguments: it leaves omittedDict and is marked present
MarkAllocated(a, name, n) ==
    [a EXCEPT !.allocDict = DictPut(@, name, n),
              !.argDefCtx.omittedDict = [k |-> SelectSeq(@.k, LAMBDA x : x # name),
                                         v |-> DictRemove(@.v, name)],
              !.argDefCtx.defDict = SetNestedDictKey(@, name, present, "")]

\* the allocation to the required parameters that stops at the first one
\* left without an argument
RECURSIVE AllocateRequiredFirstMissing(_, _)
AllocateRequiredFirstMissing(a, j) ==
    IF j > Len(a.argDefCtx.orderList) THEN a
    ELSE LET name == a.argDefCtx.orderList[j]
         IN  IF ~NestedDictKeyExists(a.argDefCtx.defDict, name, "required")
             THEN AllocateRequiredFirstMissing(a, j + 1)
             ELSE IF a.count > 0
             THEN Only({AllocateRequiredFirstMissing(b, j + 1)
                        : b \in {[MarkAllocated(a, name, 1) EXCEPT !.count = @ - 1]}})
             ELSE [a EXCEPT !.missingList = Append(@, name)]

\* "Allocate one argument to each required parameter, including catchalls"
RECURSIVE AllocateRequired(_, _)
AllocateRequired(a, j) ==
    IF j > Len(a.argDefCtx.orderList) THEN a
    ELSE LET name == a.argDefCtx.orderList[j]
         IN  IF ~NestedDictKeyExists(a.argDefCtx.defDict, name, "required")
             THEN AllocateRequired(a, j + 1)
             ELSE Only({AllocateRequired(b, j + 1)
                        : b \in {IF a.count > 0
                                 THEN [MarkAllocated(a, name, 1) EXCEPT !.count = @ - 1]
                                 ELSE [a EXCEPT !.missingList = Append(@, name)]}})

\* "Try to allocate one argument to each optional, non-catchall parameter,
\* until there are no arguments left"
RECURSIVE AllocateOptional(_, _)
AllocateOptional(a, j) ==
    IF j > Len(a.argDefCtx.orderList) \/ a.count = 0 THEN a
    ELSE LET name == a.argDefCtx.orderList[j]
         IN  IF ~NestedDictKeyExists(a.argDefCtx.defDict, name, "required")
                /\ ~NestedDictKeyExists(a.argDefCtx.defDict, name, "catchall")
             THEN Only({AllocateOptional(b, j + 1)
                        : b \in {[MarkAllocated(a, name, 1) EXCEPT !.count = @ - 1]}})
             ELSE AllocateOptional(a, j + 1)

\* the excess arguments with one of them only allocated to the catchall
ProcessExcessOneToken(a) ==
    IF a.count = 0 THEN a
    ELSE IF a.argDefCtx.catchall # << >>
    THEN LET catchallName == a.argDefCtx.catchall[1]
         IN  [a EXCEPT !.allocDict =
                           DictPut(@, catchallName,
                                   (IF DictKeyExists(@, catchallName) THEN @[catchallName] ELSE 0)
                                       + 1),
                       !.argDefCtx.omittedDict =
                           [k |-> SelectSeq(@.k, LAMBDA x : x # catchallName),
                            v |-> DictRemove(@.v, catchallName)]]
    ELSE IF ODictKeyExists(a.argDefCtx.defDict, "")
    THEN [a EXCEPT !.argDefCtx.orderList = Append(@, ""),
                   !.allocDict = DictPut(@, "", a.count)]
    ELSE Fail(a, "allocation", "too many arguments")

\* "Process excess arguments"; DictIncr adds to what the catchall holds
ProcessExcess(a) ==
    IF a.count = 0 THEN a
    ELSE IF a.argDefCtx.catchall # << >>
    THEN LET catchallName == a.argDefCtx.catchall[1]
         IN  [a EXCEPT !.allocDict =
                           DictPut(@, catchallName,
                                   (IF DictKeyExists(@, catchallName) THEN @[catchallName] ELSE 0)
                                       + a.count),
                       !.argDefCtx.omittedDict =
                           [k |-> SelectSeq(@.k, LAMBDA x : x # catchallName),
                            v |-> DictRemove(@.v, catchallName)]]
    ELSE IF ODictKeyExists(a.argDefCtx.defDict, "")
    THEN [a EXCEPT !.argDefCtx.orderList = Append(@, ""),
                   !.allocDict = DictPut(@, "", a.count)]
    ELSE Fail(a, "allocation", "too many arguments")

\* from the end of the switch loop to the end of the allocation
AllocateStep(inv) ==
    LET params == IF HAS_GLOBAL_SWITCH(inv.ctx, GLOBAL_SWITCH_PFIRST)
                  THEN ListReplace(inv.params, 0, 0, inv.force)
                  ELSE MergeTwoLists(inv.params, inv.force)
        Counted(p) == [inv EXCEPT !.params = p, !.count = Len(p)]
        Excess(a2) == Only({IF a3.pc = "error" THEN a3 ELSE [a3 EXCEPT !.pc = "check"]
                            : a3 \in {ProcessExcess(a2)}})
        Required(a1) == IF Len(a1.missingList) > 0
                        THEN Fail(a1, "allocation", BuildMissingParameterError(a1.missingList))
                        ELSE Only({Excess(a2) : a2 \in {AllocateOptional(a1, 1)}})
        Switches(missingSw) ==
            IF Len(missingSw) > 0
            THEN Only({Fail([inv EXCEPT !.missingList = sorted], "missing switch",
                            BuildMissingSwitchesError(sorted))
                       : sorted \in {EvalLsort(missingSw)}})
            ELSE Only({Only({Required(a1)
               : a1 \in {AllocateRequired(a0, 1)}})
                       : a0 \in {Only({Counted(p) : p \in {params}})}})
    IN  Only({Switches(missingSw)
              : missingSw \in {IF Len(inv.argDefCtx.switchesList) > 0
                               THEN MissingSwitches(inv.argDefCtx) ELSE << >>}})

(***************************************************************************)
(* ArgparseCmdProc2: "Check constraints"                                   *)
(***************************************************************************)
\* the name of an element as the messages show it
DashName(defDict, name) ==
    IF NestedDictKeyExists(defDict, name, "switch") THEN "-" \o name ELSE name

\* the message of the first -require or -forbid of a present element that
\* does not hold, in the order of the sweep over defDict, or ""
CheckRequireForbid(defDict) ==
    LET List(k, c) == IF DictKeyExists(defDict.v[k], c) THEN ListElems(defDict.v[k][c]) ELSE << >>
        \* <<element index, 1 for require and 2 for forbid, index in the list>>
        Refs(i, c) == List(defDict.k[i], IF c = 1 THEN "require" ELSE "forbid")
        Bad(ic) == Only({{<< ic[1], ic[2], j >> :
               j \in {x \in 1..Len(refs) :
                         /\ DictKeyExists(defDict.v[defDict.k[ic[1]]], present)
                         /\ NestedDictKeyExists(defDict, refs[x], present)
                                # (ic[2] = 1)}}
                         : refs \in {Refs(ic[1], ic[2])}})
        Before(t, o) == \/ t[1] < o[1]
                        \/ t[1] = o[1] /\ t[2] < o[2]
                        \/ t[1] = o[1] /\ t[2] = o[2] /\ t[3] <= o[3]
        Message(b) ==
            LET name == defDict.k[b[1]]
            IN  DashName(defDict, name)
                    \o (IF b[2] = 1 THEN " requires " ELSE " conflicts with ")
                    \o DashName(defDict, List(name, IF b[2] = 1 THEN "require" ELSE "forbid")[b[3]])
        First(bad) == IF bad = {} THEN ""
                      ELSE Message(CHOOSE t \in bad : \A o \in bad : Before(t, o))
    IN  Only({First(bad) : bad \in {UNION {Bad(ic) : ic \in (1..Len(defDict.k)) \X (1..2)}}})

\* the message of the first present element that a present element with an
\* -allow list does not allow, or ""
CheckAllow(defDict) ==
    LET Allowed(k, presentedNames) ==
            Only({{j \in 1..Len(presentedNames) :
                      presentedNames[j] # k /\ ~InList(presentedNames[j], allow)}
                  : allow \in {ListElems(defDict.v[k]["allow"])}})
        Bad(presentedNames) ==
            UNION {{<< i, j >> : j \in Allowed(defDict.k[i], presentedNames)} :
                   i \in {x \in 1..Len(defDict.k) :
                             /\ DictKeyExists(defDict.v[defDict.k[x]], present)
                             /\ DictKeyExists(defDict.v[defDict.k[x]], "allow")}}
        First(presentedNames, bad) ==
            IF bad = {} THEN ""
            ELSE LET b == CHOOSE t \in bad :
                              \A o \in bad : t[1] < o[1] \/ (t[1] = o[1] /\ t[2] <= o[2])
                 IN  defDict.k[b[1]] \o " doesn't allow " \o presentedNames[b[2]]
    IN  Only({Only({First(presentedNames, bad)
                    : bad \in {Bad(presentedNames)}})
              : presentedNames \in
                    {SelectSeq(defDict.k, LAMBDA k : DictKeyExists(defDict.v[k], present))}})

\* the checks with the sweep of -allow made before that of -require and
\* -forbid
CheckStepAllowFirst(inv) ==
    LET RequireForbid(rf) == IF rf # "" THEN Fail(inv, "constraint", rf)
                             ELSE [inv EXCEPT !.pc = "store"]
        Allow(al) == IF al # "" THEN Fail(inv, "allow", al)
                     ELSE Only({RequireForbid(rf)
                                : rf \in {CheckRequireForbid(inv.argDefCtx.defDict)}})
    IN  Only({Allow(al) : al \in {CheckAllow(inv.argDefCtx.defDict)}})

\* the two sweeps of "Check constraints": -require and -forbid, then -allow
CheckStep(inv) ==
    LET Allow(al) == IF al # "" THEN Fail(inv, "allow", al) ELSE [inv EXCEPT !.pc = "store"]
        RequireForbid(rf) == IF rf # "" THEN Fail(inv, "constraint", rf)
                             ELSE Only({Allow(al) : al \in {CheckAllow(inv.argDefCtx.defDict)}})
    IN  Only({RequireForbid(rf) : rf \in {CheckRequireForbid(inv.argDefCtx.defDict)}})

(***************************************************************************)
(* ArgparseCmdProc2: storing the results                                   *)
(***************************************************************************)
\* "If normalization is enabled, explicitly store into the pass-through keys
\* all omitted switches that have a pass-through key, accept an argument, and
\* have a default value"
RECURSIVE NormalizeOmitted(_, _, _)
NormalizeOmitted(argDefCtx, resultDict, i) ==
    IF i > Len(argDefCtx.defDict.k) THEN resultDict
    ELSE LET name == argDefCtx.defDict.k[i]
             opt == argDefCtx.defDict.v[name]
         IN  IF /\ DictKeyExists(opt, "switch") /\ DictKeyExists(opt, "pass")
                /\ DictKeyExists(opt, "argument") /\ DictKeyExists(opt, "default")
                /\ ODictKeyExists(argDefCtx.omittedDict, name)
             THEN Only({NormalizeOmitted(argDefCtx, r, i + 1)
                        : r \in {DictLappend(resultDict, opt["pass"],
                                             << "-" \o name, opt["default"] >>)}})
             ELSE NormalizeOmitted(argDefCtx, resultDict, i + 1)

\* a value that begins with "-" is passed through behind a "--"
PassThrough(resultDict, passLoc, first, values) ==
    DictLappend(IF Len(first) > 0 /\ CharAt(first, 1) = "-" /\ ~ODictKeyExists(resultDict, passLoc)
                THEN DictLappendElem(resultDict, passLoc, "--")
                ELSE resultDict,
                passLoc, values)

\* "Validate parameters and store in result dict", from the j-th parameter
RECURSIVE StoreParameters(_, _, _)
StoreParameters(inv, j, indx) ==
    IF j > Len(inv.argDefCtx.orderList) THEN inv
    ELSE LET name == inv.argDefCtx.orderList[j]
             opt == inv.argDefCtx.defDict.v[name]
             named == Len(ListElems(name)) > 0
             single == ~DictKeyExists(opt, "catchall") /\ named
             step == IF single THEN 1 ELSE inv.allocDict[name]
             given == IF single THEN << inv.params[indx + 1] >>
                      ELSE ListRange(inv.params, indx, indx + step - 1)
             Stored(values) ==
                 LET r1 == IF DictKeyExists(opt, "pass")
                           THEN PassThrough(inv.resultDict, opt["pass"], values[1], values)
                           ELSE inv.resultDict
                 IN  IF DictKeyExists(opt, "key")
                     THEN ODictPut(r1, opt["key"], IF single THEN values[1] ELSE TclList(values))
                     ELSE r1
             Next(i0, values) == Only({StoreParameters(i, j + 1, indx + step)
                                       : i \in {[i0 EXCEPT !.resultDict = Stored(values)]}})
             Typed(i0, values) == Only({IF typed.code = "error"
                                        THEN Fail(i0, "parameter", typed.result)
                                        ELSE Next(i0, values)
                                        : typed \in {TypeChecker(name, opt, values)}})
             Checked(i0, checked) == IF checked.code = "error"
                                     THEN Fail(i0, "parameter", checked.result)
                                     ELSE Typed(i0, checked.result)
             \* the invocation with the variables of the caller as the
             \* validation left them
             Scoped(validated) ==
                 [inv EXCEPT !.vars = ValidateHelperVars(@, name, opt, validated)]
         IN  IF DictKeyExists(inv.allocDict, name)
             THEN IF named
                  THEN Only({Checked(Scoped(checked), checked)
                             : checked \in {ValidateHelperList(inv.ctx, name, opt, given)}})
                  ELSE Only({Next(inv, values) : values \in {given}})
             ELSE IF HAS_GLOBAL_SWITCH(inv.ctx, GLOBAL_SWITCH_NORMALIZE)
                     /\ DictKeyExists(opt, "default") /\ DictKeyExists(opt, "pass")
             THEN Only({StoreParameters(i, j + 1, indx)
                        : i \in {[inv EXCEPT !.resultDict =
                                     PassThrough(@, opt["pass"], opt["default"],
                                                 << opt["default"] >>)]}})
             ELSE StoreParameters(inv, j + 1, indx)

\* "Create default values for missing elements"
RECURSIVE CreateDefaults(_, _, _)
CreateDefaults(defDict, resultDict, i) ==
    IF i > Len(defDict.k) THEN resultDict
    ELSE LET opt == defDict.v[defDict.k[i]]
             r1 == IF DictKeyExists(opt, "key") /\ ~ODictKeyExists(resultDict, opt["key"])
                   THEN IF DictKeyExists(opt, "default")
                        THEN ODictPut(resultDict, opt["key"], opt["default"])
                        ELSE IF DictKeyExists(opt, "catchall")
                        THEN ODictPut(resultDict, opt["key"], "")
                        ELSE resultDict
                   ELSE resultDict
             Pass(r) == IF DictKeyExists(opt, "pass") /\ ~ODictKeyExists(r, opt["pass"])
                        THEN ODictPut(r, opt["pass"], "")
                        ELSE r
         IN  Only({CreateDefaults(defDict, r, i + 1) : r \in {Only({Pass(r) : r \in {r1}})}})

\* the string of a dictionary: key value key value ...
DictString(d) ==
    TclList([i \in 1..(2 * Len(d.k)) |->
                IF i % 2 = 1 THEN d.k[(i + 1) \div 2] ELSE d.v[d.k[i \div 2]]])

\* "Unless -keep was used, unset caller variables for omitted elements" and
\* "Process results": the variables of the caller after the invocation.
\* Elements with -upvar are not among the definitions examined.
BindResults(inv, resultDict) ==
    LET omitted == inv.argDefCtx.omittedDict.k
        defDict == inv.argDefCtx.defDict
        unset == IF HAS_GLOBAL_SWITCH(inv.ctx, GLOBAL_SWITCH_KEEP) THEN {}
                 ELSE {defDict.v[omitted[i]]["key"] : i \in
                          {x \in 1..Len(omitted) :
                              /\ DictKeyExists(defDict.v[omitted[x]], "key")
                              /\ ~DictKeyExists(defDict.v[omitted[x]], "keep")
                              /\ ~ODictKeyExists(resultDict, defDict.v[omitted[x]]["key"])}}
    IN  Only({[k \in (DOMAIN inv.vars \ u) \cup DOMAIN resultDict.v |->
                  IF k \in DOMAIN resultDict.v THEN resultDict.v[k]
                  ELSE inv.vars[k]]
              : u \in {unset}})

\* from the end of the checks to the return of the procedure
StoreStep(inv) ==
    LET r0 == IF HAS_GLOBAL_SWITCH(inv.ctx, GLOBAL_SWITCH_NORMALIZE)
              THEN NormalizeOmitted(inv.argDefCtx, inv.resultDict, 1)
              ELSE inv.resultDict
        Return(stored, resultDict) ==
            IF HAS_GLOBAL_SWITCH(inv.ctx, GLOBAL_SWITCH_INLINE)
            THEN [stored EXCEPT !.pc = "done", !.resultDict = resultDict,
                                !.msg = DictString(resultDict)]
            ELSE [stored EXCEPT !.pc = "done", !.resultDict = resultDict,
                                !.vars = BindResults(stored, resultDict)]
        Defaults(stored) ==
            IF stored.pc = "error" THEN stored
            ELSE Only({Return(stored, resultDict)
                       : resultDict \in
                             {CreateDefaults(stored.argDefCtx.defDict, stored.resultDict, 1)}})
    IN  Only({Only({Defaults(stored) : stored \in {StoreParameters(i, 1, 0)}})
              : i \in {Only({[inv EXCEPT !.resultDict = r] : r \in {r0}})}})

(***************************************************************************)
(* The cache of parsed definitions                                         *)
(***************************************************************************)
\* malloc: an address that holds no structure
Malloc(hp) == CHOOSE a \in 1..(Cardinality(DOMAIN hp) + 1) : a \notin DOMAIN hp

\* free
Free(hp, a) == [x \in DOMAIN hp \ {a} |-> hp[x]]

\* a copy that is the cached structure itself
DeepCopyArgumentDefinitionAlias(hp, src) == [copy |-> src, heap |-> hp]

\* DeepCopyArgumentDefinition: a new structure whose fields are duplicates
\* of the fields of src
DeepCopyArgumentDefinition(hp, src) ==
    Only({[copy |-> copy,
           heap |-> [x \in DOMAIN hp \cup {copy} |->
                        IF x = copy
                        THEN [defDict |-> hp[src].defDict,
                              aliasesDict |-> hp[src].aliasesDict,
                              orderList |-> hp[src].orderList,
                              switchesList |-> hp[src].switchesList,
                              upvarsDict |-> hp[src].upvarsDict,
                              omittedDict |-> hp[src].omittedDict,
                              catchall |-> hp[src].catchall]
                        ELSE hp[x]]]
          : copy \in {Malloc(hp)}})

\* Tcl_FindHashEntry(&interpCtx->argDefHashTable, key)
FindHashEntry(table, key) == IF key \in DOMAIN table THEN table[key] ELSE NULL

\* CreateAndCacheArgDef without the entry in the hash table
CreateAndCacheArgDefNoEntry(table, hp, definition, ctx, key) ==
    LET Created(argDef, parse) ==
            IF parse.code # "ok"
            THEN [argDef |-> NULL, msg |-> parse.msg, table |-> table, heap |-> hp,
                  parsed |-> FALSE]
            ELSE [argDef |-> argDef, msg |-> "", table |-> table,
                  heap |-> [x \in DOMAIN hp \cup {argDef} |->
                               IF x = argDef THEN parse.argCtx ELSE hp[x]],
                  parsed |-> TRUE]
    IN  Only({Only({Created(argDef, parse) : argDef \in {Malloc(hp)}})
              : parse \in
                    {ParseElementDefinitions(ctx, definition, 1, InitArgumentDefinition)}})

\* CreateAndCacheArgDef: the entry is kept only when the definition parses
CreateAndCacheArgDef(table, hp, definition, ctx, key) ==
    LET Created(argDef, parse) ==
            IF parse.code # "ok"
            THEN [argDef |-> NULL, msg |-> parse.msg, table |-> table, heap |-> hp,
                  parsed |-> FALSE]
            ELSE [argDef |-> argDef, msg |-> "",
                  table |-> [k \in DOMAIN table \cup {key} |->
                                IF k = key THEN argDef ELSE table[k]],
                  heap |-> [x \in DOMAIN hp \cup {argDef} |->
                               IF x = argDef THEN parse.argCtx ELSE hp[x]],
                  parsed |-> TRUE]
    IN  IF key \in DOMAIN table
        THEN [argDef |-> table[key], msg |-> "", table |-> table, heap |-> hp,
              parsed |-> FALSE]
        ELSE Only({Created(Malloc(hp), parse)
                   : parse \in
                         {ParseElementDefinitions(ctx, definition, 1, InitArgumentDefinition)}})

(***************************************************************************)
(* ArgparseCmdProc2: from the call to the start of the switch logic        *)
(***************************************************************************)
\* "Process arguments to argparse procedure": the global options
RECURSIVE ProcessGlobalOptions(_, _, _)
ProcessGlobalOptions(objv, i, ctx) ==
    LET Option(index) ==
            IF index = 0 THEN [code |-> "ok", msg |-> "", i |-> i, ctx |-> ctx]
            ELSE IF (index - 1) \in GLOBAL_SWITCH_TAKES_ARG_MASK
            THEN IF i + 1 > Len(objv)
                 THEN [code |-> "error", msg |-> "Missing argument for " \o globalSwitches[index],
                       i |-> i, ctx |-> ctx]
                 ELSE Only({ProcessGlobalOptions(objv, i + 2, c)
                            : c \in {SetGlobalSwitch(ctx, index - 1, TRUE, objv[i + 1])}})
            ELSE Only({ProcessGlobalOptions(objv, i + 1, c)
                       : c \in {SetGlobalSwitch(ctx, index - 1, FALSE, "")}})
    IN  Only({Option(index)
              : index \in {IF i > Len(objv) THEN 0
                           ELSE GetIndexFromObj(globalSwitches, objv[i], FALSE)}})

\* the definition list taken as it is, comments included
PreprocessDefinitionAll(defListElems, j, commentFlag) == defListElems

\* "pre-process definition list": the elements that are not comments
RECURSIVE PreprocessDefinition(_, _, _)
PreprocessDefinition(defListElems, j, commentFlag) ==
    IF j > Len(defListElems) THEN << >>
    ELSE IF ListElems(defListElems[j])[1] = "#"
    THEN PreprocessDefinition(defListElems, j + 1,
                              Len(ListElems(defListElems[j])) = 1 \/ commentFlag)
    ELSE IF commentFlag THEN PreprocessDefinition(defListElems, j + 1, FALSE)
    ELSE << defListElems[j] >> \o PreprocessDefinition(defListElems, j + 1, FALSE)

\* "Reorder parameters to have required parameters first if -pfirst global
\* switch is specified"
ReorderParameters(argDefCtx) ==
    LET orderReq == SelectSeq(argDefCtx.orderList,
                        LAMBDA n : DictKeyExists(argDefCtx.defDict.v[n], "required"))
        orderOpt == SelectSeq(argDefCtx.orderList,
                        LAMBDA n : ~DictKeyExists(argDefCtx.defDict.v[n], "required"))
    IN  MergeTwoLists(orderReq, orderOpt)

\* the arguments given whole to the switch logic, none forced
ForceRequiredNone(ctx, argDefCtx, argv) ==
    [force |-> << >>, argv |-> argv, end |-> Len(argv) - 1]

\* "Force required parameters to bypass switch logic"
ForceRequired(ctx, argDefCtx, argv) ==
    LET lenArgv == Len(argv)
        Forced(required) ==
            IF HAS_GLOBAL_SWITCH(ctx, GLOBAL_SWITCH_MIXED)
            THEN [force |-> ListReplace(argv, 0, lenArgv, << >>),
                  argv |-> ListRange(argv, 0, lenArgv - 1), end |-> lenArgv - 1]
            ELSE IF HAS_GLOBAL_SWITCH(ctx, GLOBAL_SWITCH_PFIRST)
            THEN [force |-> ListReplace(argv, required, lenArgv - required, << >>),
                  argv |-> ListRange(argv, required, lenArgv - 1), end |-> lenArgv - 1]
            ELSE [force |-> ListReplace(argv, 0, lenArgv - required, << >>),
                  argv |-> ListRange(argv, 0, lenArgv - 1 - required),
                  end |-> lenArgv - 1 - required]
    IN  Only({Forced(required)
              : required \in
                    {Len(SelectSeq(argDefCtx.orderList,
                             LAMBDA n : DictKeyExists(argDefCtx.defDict.v[n], "required")))}})

\* the invocation before the call: nothing parsed, the caller's variables
NewInvocation(objv, callerVars) ==
    [pc |-> "idle", objv |-> objv, ctx |-> EmptyCtx, definition |-> << >>, key |-> "",
     argDefCtx |-> NULL, argv |-> << >>, params |-> << >>, force |-> << >>, end |-> 0,
     count |-> 0, resultDict |-> EmptyODict, allocDict |-> EmptyDict,
     missingList |-> << >>, kind |-> "", msg |-> "", vars |-> callerVars,
     trace |-> << >>, hit |-> FALSE, cashed |-> InitArgumentDefinition,
     last |-> InitArgumentDefinition]

\* the procedure from the copy of the cached definition to the start of the
\* switch logic: inv1 is the invocation, copied the heap with the working
\* copy and its address, argv the arguments to parse
Prepare(inv1, copied, argv) ==
    LET ctx == inv1.ctx
        work0 == copied.heap[copied.copy]
        Passed(defDict) == IF HAS_GLOBAL_SWITCH(ctx, GLOBAL_SWITCH_PASS)
                           THEN ODictPut(defDict, "",
                                         [pass |-> GLOBAL_SWITCH_ARG(ctx, GLOBAL_SWITCH_PASS)])
                           ELSE defDict
        Reordered(work1) == IF HAS_GLOBAL_SWITCH(ctx, GLOBAL_SWITCH_PFIRST)
                            THEN [work1 EXCEPT !.orderList = ReorderParameters(work1)]
                            ELSE work1
        Start(work2, forced) ==
            LET switches == Len(work2.switchesList) > 0
            IN  [inv |-> [inv1 EXCEPT !.pc = IF switches THEN "switches" ELSE "allocate",
                                      !.argDefCtx = copied.copy,
                                      !.argv = forced.argv,
                                      !.force = forced.force,
                                      !.end = forced.end,
                                      !.params = IF switches THEN << >> ELSE forced.argv],
                 heap |-> [copied.heap EXCEPT ![copied.copy] = work2]]
        Constrained(constraints) ==
            IF constraints.code = "error"
            THEN [inv |-> [Fail(inv1, "schema", constraints.msg) EXCEPT
                              !.last = [work0 EXCEPT !.defDict = constraints.defDict]],
                  heap |-> Free(copied.heap, copied.copy)]
            ELSE Only({Only({Start(work2, forced)
                             : forced \in {ForceRequired(ctx, work2, argv)}})
                       : work2 \in {Only({Reordered([work0 EXCEPT !.defDict = d])
                                          : d \in {Passed(constraints.defDict)}})}})
    IN  Only({Constrained(constraints)
              : constraints \in {ProcessConstraints(ctx, work0.defDict, work0.defDict.k, 1)}})

\* the procedure entered without its global options being checked for conflicts
BeginUnchecked(objv, callerVars, table, hp) ==
    LET inv0 == NewInvocation(objv, callerVars)
        Out(i, t, h, p) == [inv |-> i, table |-> t, heap |-> h, parsed |-> p]
        Stop(kind, msg) == Out(Fail(inv0, kind, msg), table, hp, FALSE)
        \* cashedArgDefCtx is the cached definition of the key, in heap1
        Copy(inv1, cashedArgDefCtx, table1, heap1, parsed, argv) ==
            Only({Only({Out(p.inv, table1, p.heap, parsed)
                        : p \in {Prepare([inv1 EXCEPT !.cashed = heap1[cashedArgDefCtx]],
                                         copied, argv)}})
                  : copied \in {DeepCopyArgumentDefinition(heap1, cashedArgDefCtx)}})
        Cached(inv1, argv) ==
            IF FindHashEntry(table, inv1.key) # NULL
            THEN Copy([inv1 EXCEPT !.hit = TRUE], FindHashEntry(table, inv1.key),
                      table, hp, FALSE, argv)
            ELSE Only({IF created.argDef = NULL
                       THEN Out(Fail(inv1, "schema", created.msg),
                                created.table, created.heap, FALSE)
                       ELSE Copy(inv1, created.argDef, created.table, created.heap,
                                 created.parsed, argv)
                       : created \in
                             {CreateAndCacheArgDef(table, hp, inv1.definition, inv1.ctx,
                                                   inv1.key)}})
        Definition(ctx, defListElems, argv) ==
            IF \E j \in 1..Len(defListElems) : Len(ListElems(defListElems[j])) = 0
            THEN Stop("schema", "element definition cannot be empty")
            ELSE Only({Only({Cached(inv1, argv)
                             : inv1 \in
                                   {[inv0 EXCEPT !.ctx = ctx, !.definition = definition,
                                                 !.key = TclList(definition) \o " "
                                                             \o GenerateGlobalSwitchesKey(ctx)]}})
                       : definition \in {PreprocessDefinition(defListElems, 1, FALSE)}})
        Arguments(ctx, i) ==
            LET left == Len(objv) - i + 1
            IN  IF left = 0 THEN Stop("usage", "missing required parameter: definition")
                ELSE IF left = 1 /\ ~DictKeyExists(callerVars, "args")
                THEN Stop("usage", "Variable 'args' not found")
                ELSE IF left > 2 THEN Stop("usage", "too many arguments")
                ELSE Only({Only({Definition(ctx, defListElems, argv)
                                 : argv \in {ListElems(IF left = 1 THEN callerVars["args"]
                                                       ELSE objv[Len(objv)])}})
                           : defListElems \in {ListElems(objv[i])}})
        Options(opts) ==
            IF opts.code = "error" THEN Stop("usage", opts.msg)
            ELSE Arguments(opts.ctx, IF opts.i <= Len(objv) /\ objv[opts.i] = "--"
                                     THEN opts.i + 1 ELSE opts.i)
    IN  Only({Options(opts) : opts \in {ProcessGlobalOptions(objv, 1, EmptyCtx)}})

\* the procedure entered without the count of its arguments being checked
BeginUncounted(objv, callerVars, table, hp) ==
    LET inv0 == NewInvocation(objv, callerVars)
        Out(i, t, h, p) == [inv |-> i, table |-> t, heap |-> h, parsed |-> p]
        Stop(kind, msg) == Out(Fail(inv0, kind, msg), table, hp, FALSE)
        \* cashedArgDefCtx is the cached definition of the key, in heap1
        Copy(inv1, cashedArgDefCtx, table1, heap1, parsed, argv) ==
            Only({Only({Out(p.inv, table1, p.heap, parsed)
                        : p \in {Prepare([inv1 EXCEPT !.cashed = heap1[cashedArgDefCtx]],
                                         copied, argv)}})
                  : copied \in {DeepCopyArgumentDefinition(heap1, cashedArgDefCtx)}})
        Cached(inv1, argv) ==
            IF FindHashEntry(table, inv1.key) # NULL
            THEN Copy([inv1 EXCEPT !.hit = TRUE], FindHashEntry(table, inv1.key),
                      table, hp, FALSE, argv)
            ELSE Only({IF created.argDef = NULL
                       THEN Out(Fail(inv1, "schema", created.msg),
                                created.table, created.heap, FALSE)
                       ELSE Copy(inv1, created.argDef, created.table, created.heap,
                                 created.parsed, argv)
                       : created \in
                             {CreateAndCacheArgDef(table, hp, inv1.definition, inv1.ctx,
                                                   inv1.key)}})
        Definition(ctx, defListElems, argv) ==
            IF \E j \in 1..Len(defListElems) : Len(ListElems(defListElems[j])) = 0
            THEN Stop("schema", "element definition cannot be empty")
            ELSE IF HAS_GLOBAL_SWITCH(ctx, GLOBAL_SWITCH_INLINE)
                    /\ HAS_GLOBAL_SWITCH(ctx, GLOBAL_SWITCH_KEEP)
            THEN Stop("usage", "-inline and -keep conflict")
            ELSE IF HAS_GLOBAL_SWITCH(ctx, GLOBAL_SWITCH_MIXED)
                    /\ HAS_GLOBAL_SWITCH(ctx, GLOBAL_SWITCH_PFIRST)
            THEN Stop("usage", "-mixed and -pfirst conflict")
            ELSE Only({Only({Cached(inv1, argv)
                             : inv1 \in
                                   {[inv0 EXCEPT !.ctx = ctx, !.definition = definition,
                                                 !.key = TclList(definition) \o " "
                                                             \o GenerateGlobalSwitchesKey(ctx)]}})
                       : definition \in {PreprocessDefinition(defListElems, 1, FALSE)}})
        Arguments(ctx, i) ==
            LET left == Len(objv) - i + 1
            IN  IF left = 0 THEN Stop("usage", "missing required parameter: definition")
                ELSE IF left = 1 /\ ~DictKeyExists(callerVars, "args")
                THEN Stop("usage", "Variable 'args' not found")
                ELSE Only({Only({Definition(ctx, defListElems, argv)
                                 : argv \in {ListElems(IF left = 1 THEN callerVars["args"]
                                                       ELSE objv[Len(objv)])}})
                           : defListElems \in {ListElems(objv[i])}})
        Options(opts) ==
            IF opts.code = "error" THEN Stop("usage", opts.msg)
            ELSE Arguments(opts.ctx, IF opts.i <= Len(objv) /\ objv[opts.i] = "--"
                                     THEN opts.i + 1 ELSE opts.i)
    IN  Only({Options(opts) : opts \in {ProcessGlobalOptions(objv, 1, EmptyCtx)}})

\* the procedure from its entry to the start of the switch logic.  The
\* result holds the invocation, whose argDefCtx points to the working copy,
\* and the hash table and the heap as the procedure leaves them.  The fields
\* trace, hit, cashed and last of an invocation record what it did: the
\* element each switch token stood for, whether the definition was found in
\* the hash table, the structure the copy was made from, and the working
\* copy as it was when it was freed
Begin(objv, callerVars, table, hp) ==
    LET inv0 == NewInvocation(objv, callerVars)
        Out(i, t, h, p) == [inv |-> i, table |-> t, heap |-> h, parsed |-> p]
        Stop(kind, msg) == Out(Fail(inv0, kind, msg), table, hp, FALSE)
        \* cashedArgDefCtx is the cached definition of the key, in heap1
        Copy(inv1, cashedArgDefCtx, table1, heap1, parsed, argv) ==
            Only({Only({Out(p.inv, table1, p.heap, parsed)
                        : p \in {Prepare([inv1 EXCEPT !.cashed = heap1[cashedArgDefCtx]],
                                         copied, argv)}})
                  : copied \in {DeepCopyArgumentDefinition(heap1, cashedArgDefCtx)}})
        Cached(inv1, argv) ==
            IF FindHashEntry(table, inv1.key) # NULL
            THEN Copy([inv1 EXCEPT !.hit = TRUE], FindHashEntry(table, inv1.key),
                      table, hp, FALSE, argv)
            ELSE Only({IF created.argDef = NULL
                       THEN Out(Fail(inv1, "schema", created.msg),
                                created.table, created.heap, FALSE)
                       ELSE Copy(inv1, created.argDef, created.table, created.heap,
                                 created.parsed, argv)
                       : created \in
                             {CreateAndCacheArgDef(table, hp, inv1.definition, inv1.ctx,
                                                   inv1.key)}})
        Definition(ctx, defListElems, argv) ==
            IF \E j \in 1..Len(defListElems) : Len(ListElems(defListElems[j])) = 0
            THEN Stop("schema", "element definition cannot be empty")
            ELSE IF HAS_GLOBAL_SWITCH(ctx, GLOBAL_SWITCH_INLINE)
                    /\ HAS_GLOBAL_SWITCH(ctx, GLOBAL_SWITCH_KEEP)
            THEN Stop("usage", "-inline and -keep conflict")
            ELSE IF HAS_GLOBAL_SWITCH(ctx, GLOBAL_SWITCH_MIXED)
                    /\ HAS_GLOBAL_SWITCH(ctx, GLOBAL_SWITCH_PFIRST)
            THEN Stop("usage", "-mixed and -pfirst conflict")
            ELSE Only({Only({Cached(inv1, argv)
                             : inv1 \in
                                   {[inv0 EXCEPT !.ctx = ctx, !.definition = definition,
                                                 !.key = TclList(definition) \o " "
                                                             \o GenerateGlobalSwitchesKey(ctx)]}})
                       : definition \in {PreprocessDefinition(defListElems, 1, FALSE)}})
        Arguments(ctx, i) ==
            LET left == Len(objv) - i + 1
            IN  IF left = 0 THEN Stop("usage", "missing required parameter: definition")
                ELSE IF left = 1 /\ ~DictKeyExists(callerVars, "args")
                THEN Stop("usage", "Variable 'args' not found")
                ELSE IF left > 2 THEN Stop("usage", "too many arguments")
                ELSE Only({Only({Definition(ctx, defListElems, argv)
                                 : argv \in {ListElems(IF left = 1 THEN callerVars["args"]
                                                       ELSE objv[Len(objv)])}})
                           : defListElems \in {ListElems(objv[i])}})
        Options(opts) ==
            IF opts.code = "error" THEN Stop("usage", opts.msg)
            ELSE Arguments(opts.ctx, IF opts.i <= Len(objv) /\ objv[opts.i] = "--"
                                     THEN opts.i + 1 ELSE opts.i)
    IN  Only({Options(opts) : opts \in {ProcessGlobalOptions(objv, 1, EmptyCtx)}})

\* the procedure is between its entry and its return
Running(inv) == inv.pc \in {"switches", "allocate", "check", "store"}

(***************************************************************************)
(* The state machine                                                       *)
(***************************************************************************)
\* inv              the invocation of argparse in progress, or the last one
\* argDefHashTable  interpCtx->argDefHashTable: key -> ArgumentDefinition *
\* heap             the ArgumentDefinition structures allocated
\* parseCount       for each key, how often ParseElementDefinitions
\*                  succeeded for it
\* firstParsed      for each key, the structure its first parse produced
\* calls            the number of invocations made
VARIABLES inv, argDefHashTable, heap, parseCount, firstParsed, calls

vars == << inv, argDefHashTable, heap, parseCount, firstParsed, calls >>

Init ==
    /\ inv = NewInvocation(<< >>, EmptyDict)
    /\ argDefHashTable = EmptyDict
    /\ heap = EmptyDict
    /\ parseCount = EmptyDict
    /\ firstParsed = EmptyDict
    /\ calls = 0

\* argparse is called with the words objv by a caller with the variables
\* callerVars
Invoke(objv, callerVars) ==
    /\ ~Running(inv)
    /\ \E b \in {Begin(objv, callerVars, argDefHashTable, heap)} :
          /\ inv' = b.inv
          /\ argDefHashTable' = b.table
          /\ heap' = b.heap
          /\ parseCount' = IF b.parsed
                           THEN DictPut(parseCount, b.inv.key,
                                        IF DictKeyExists(parseCount, b.inv.key)
                                        THEN parseCount[b.inv.key] + 1 ELSE 1)
                           ELSE parseCount
          /\ firstParsed' = IF b.parsed /\ ~DictKeyExists(firstParsed, b.inv.key)
                            THEN DictPut(firstParsed, b.inv.key, b.inv.cashed)
                            ELSE firstParsed
          /\ calls' = calls + 1

\* the invocation with its working copy in place of the pointer to it
Deref == [inv EXCEPT !.argDefCtx = heap[inv.argDefCtx]]

\* the invocation takes the step Do: the working copy is written back, and
\* freed by FreeArgumentDefinition when the procedure returns
Commit(Do(_)) ==
    \E new \in {Only({Do(v) : v \in {Deref}})} :
        /\ inv' = IF Running(new) THEN [new EXCEPT !.argDefCtx = inv.argDefCtx]
                  ELSE [new EXCEPT !.argDefCtx = NULL, !.last = new.argDefCtx]
        /\ heap' = IF Running(new) THEN [heap EXCEPT ![inv.argDefCtx] = new.argDefCtx]
                   ELSE Free(heap, inv.argDefCtx)
        /\ UNCHANGED << argDefHashTable, parseCount, firstParsed, calls >>

ProcessSwitch == inv.pc = "switches" /\ Commit(SwitchStep)

Allocate == inv.pc = "allocate" /\ Commit(AllocateStep)

Check == inv.pc = "check" /\ Commit(CheckStep)

Store == inv.pc = "store" /\ Commit(StoreStep)

(***************************************************************************)
(* The invocations examined                                                *)
(***************************************************************************)
\* the longest argument list of an invocation
MaxArgs == 3

\* the number of invocations made on one interpreter
MaxCalls == 2

\* the argument lists of at most MaxArgs tokens
ArgLists(toks) == UNION {[1..n -> toks] : n \in 0..MaxArgs}

\* the global options, the definition and the tokens of the argument lists
Case(opts, def, toks) == [opts |-> opts, def |-> def, toks |-> toks]

Cases ==
    { Case(<< >>, "{-a -require b} {-b -forbid c} {-c -allow a} -r! p",
           {"-a", "-b", "-r", "-x", "v"}),
      Case(<< >>, "{-a -forbid q} {q? -require b -reciprocal} -b p",
           {"-a", "-b", "v", "w"}),
      Case(<< "-pass", "rest" >>, "{-a -allow {b q}} -b -c q?", {"-a", "-b", "-c", "-z", "v"}),
      Case(<< >>, "r c*", {"v", "w", "-s"}),
      Case(<< "-inline" >>, "r o? c*!", {"v", "w", "x"}),
      Case(<< "-pass", "rest" >>, "r o?", {"v", "w", "-s"}),
      Case(<< "-mixed" >>, "-s= r o?", {"v", "w", "-s", "--"}),
      Case(<< "-pfirst" >>, "o? -s r c*", {"v", "w", "-s"}),
      Case(<< >>, "-verbose -verify -quiet= {m -enum {red green gray}}",
           {"-ver", "-verb", "-q", "g", "r"}),
      Case(<< "-exact", "-equalarg" >>, "-verbose -v|force= {-n= -type digit}",
           {"-v", "-verb", "-n=5", "-force=", "x"}),
      Case(<< >>, "-v -v|force -f|full {-s -standalone} {-i -imply {-v -f}} p",
           {"-v", "-f", "-s", "-i", "-fu"}),
      Case(<< >>, "{flag -boolean} {name -required}", {"-flag", "val"}),
      Case(<< "-inline" >>, "{-flag -boolean} {name -required}", {"-flag", "val"}),
      Case(<< >>, "{-a -require zz} -b", {"-a", "-b"}),
      Case(<< "-reciprocal" >>, "{-a -key k -require b} {-b -key k} {# c} # -c",
           {"-a", "-b", "-c"}),
      Case(<< >>, "{-a -key k} {b -key k}", {"-a", "v"}),
      Case(<< >>, "{-a -require b -allow b} -b -c", {"-a", "-b", "-c", "-x"}),
      Case(<< "-mixed" >>, "{-s -standalone} {-a -require b} -b -r! p", {"-s", "-a", "v"}),
      Case(<< >>, "{-a -imply {-b 5 -c}} -b= -c d", {"-a", "x"}),
      Case(<< >>, "{-f|full:force!}", {"-full"}),
      Case(<< >>, "-f|full|force!", {"-full", "-f", "1"}),
      Case(<< >>, "{-a -forbid c} {-b -require c} {-d -allow b} c*",
           {"-a", "-b", "-d", "v"}),
      Case(<< >>, "{-c -required} {-a -required} {-b -required}", {"-a", "-b"}),
      Case(<< >>, "z y a", {"v"}),
      Case(<< >>, "-v|force -v", {"-v"}),
      Case(<< >>, "-a|x -b|x", {"-x"}),
      Case(<< >>, "{-s -stand} {-a -forb s} p", {"-s", "--"}),
      Case(<< "-boolean" >>, "-a {-b -key kb} -c= {-d -default x} p?", {"-a", "-b", "-c", "v"}),
      Case(<< >>, "{-a -boolean -forbid b} {-b -forbid a -boolean} {-c -key kc -boolean -alias x}",
           {"-a", "-b", "-x"}),
      Case(<< >>, "{-a -forbid b} {-b -allow {a zz}} p?", {"-a", "-b", "v"}),
      Case(<< >>, "-a # # -b -c # {# c} -d -h {# n}", {"-a", "-b"}),
      Case(<< >>, "{-a -imply -a} p?", {"-a", "v"}),
      Case(<< >>, "{-a -imply -b} {-b -imply {-c x}} {-c= -imply -a} p?", {"-a", "-c", "v"}),
      Case(<< >>, "{-c= -enum {red green gray}} m?", {"-c", "gre", "g", "red"}),
      Case(<< >>, "{-o? -enum on}", {"-o", "o", ""}),
      Case(<< "-exact" >>, "{-c= -enum {red green}}", {"-c", "re", "red"}),
      Case(<< >>, "-s= -o? -c*", {"-s", "-o", "-c", "v"}),
      Case(<< >>, "{b -key k} {-a -key k}", {"-a", "v"}),
      Case(<< >>, "{-a= -key k} {-b -key k}", {"-a", "-b"}),
      Case(<< >>, "{-b -key k} {-a= -key k}", {"-a", "-b"}),
      Case(<< >>, "{-a -key k -default x} {-b -key k -default y}", {"-a", "-b"}),
      Case(<< >>, "{-a -key k -default x} {-b -key k}", {"-a", "-b"}),
      Case(<< "-equalarg", "-pass", "rest" >>, "-a p?", {"-a", "-z", "-z=5", "v"}),
      Case(<< >>, "{-n= -validate {$arg} -errormsg bad} {p? -validate {$arg}}",
           {"-n", "1", "0"}) }

\* the definitions and argument lists of the invocations on one interpreter
CacheInputs ==
    { << "-b= -a p?", "-a" >>, << "-b= -a p?", "-b 1 v" >>, << "-b= -a p?", "-b" >>,
      << "-b= -a p?", "-x" >>, << "-inline", "-b= -a p?", "-a" >>,
      << "-reciprocal", "{-a -require b} {-s -standalone} -b r", "-a v" >>,
      << "-reciprocal", "{-a -require b} {-s -standalone} -b r", "-s v" >>,
      << "-pass", "rest", "-pfirst", "o? {-i -imply -z} r", "v -i w" >>,
      << "-a! {-k -key z} {-l -key z}", "-x" >>,
      << "-a! {-k -key z} {-l -key z}", "-k -l -a v" >>,
      << "{-a -forbid zz}", "-a" >>, << "{-a -key k} {b -key k}", "v" >>,
      << "-a a", "" >>, << "{-a -allow zz} -b", "-b" >>,
      << "-pass", "p;template=x%", "-template", "y%", "-a", "-a" >>,
      << "-pass", "p", "-template", "x%;template=y%", "-a", "-a" >> }

\* the words of a call and the variables of its caller
Usage(objv, callerVars) == [objv |-> objv, vars |-> callerVars]

\* calls with other than two words after the global options, with global
\* options that conflict or lack their argument, and with the end of the
\* global options marked
Usages ==
    { Usage(<< "{-a -forbid}", "", "x" >>, EmptyDict),
      Usage(<< "r o?", "v", "w" >>, EmptyDict),
      Usage(<< "-inline" >>, EmptyDict),
      Usage(<< "{-a -forbid}" >>, EmptyDict),
      Usage(<< "r o?" >>, DictPut(EmptyDict, "args", "v")),
      Usage(<< "-mixed", "-pfirst", "r o?", "v" >>, EmptyDict),
      Usage(<< "-inline", "-keep", "r", "v" >>, EmptyDict),
      Usage(<< "-inline", "-keep", "{-a -forbid}", "" >>, EmptyDict),
      Usage(<< "-mixed", "-pfirst", "{}", "" >>, EmptyDict),
      Usage(<< "-mixed", "-pfirst", "r", "v", "w" >>, EmptyDict),
      Usage(<< "-pass" >>, EmptyDict),
      Usage(<< "--", "r", "v" >>, EmptyDict),
      Usage(<< "{-n= -validate {$arg}} p", "-n 0 v" >>, DictPut(EmptyDict, "arg", "x")),
      Usage(<< "{-n= -validate {$arg}} p", "-n 1" >>, DictPut(EmptyDict, "arg", "x")),
      Usage(<< "-u|up^ r", "" >>, EmptyDict) }

Next ==
    \/ \E c \in Cases : \E a \in ArgLists(c.toks) :
           calls = 0 /\ Invoke(c.opts \o << c.def, TclList(a) >>, EmptyDict)
    \/ \E u \in Usages : calls = 0 /\ Invoke(u.objv, u.vars)
    \/ ProcessSwitch
    \/ Allocate
    \/ Check
    \/ Store

\* one invocation of argparse in a new interpreter
Spec == Init /\ [][Next]_vars

\* one invocation of argparse that, once entered, runs on to its return
SpecRun == Spec /\ WF_vars(ProcessSwitch \/ Allocate \/ Check \/ Store)

NextCache ==
    \/ \E objv \in CacheInputs : calls < MaxCalls /\ Invoke(objv, EmptyDict)
    \/ ProcessSwitch
    \/ Allocate
    \/ Check
    \/ Store

\* a sequence of invocations of argparse in one interpreter
SpecCache == Init /\ [][NextCache]_vars

(***************************************************************************)
(* The order of the errors                                                 *)
(***************************************************************************)
\* the invocation has failed with an error of one of the kinds
Failed(kinds) == inv.pc = "error" /\ inv.kind \in kinds

\* the errors of the matching of the arguments
MatchingErrors == {"switch", "missing switch", "allocation", "constraint", "allow"}

\* the words of the call after the global options and the -- that ends them
Words ==
    LET opts == ProcessGlobalOptions(inv.objv, 1, EmptyCtx)
        i == IF opts.i <= Len(inv.objv) /\ inv.objv[opts.i] = "--" THEN opts.i + 1 ELSE opts.i
    IN  SubSeq(inv.objv, i, Len(inv.objv))

\* the arguments of the invocation, as the caller wrote them: the last word
\* of the call, or the variable args of the caller when the definition is
\* the only word
GivenArgs ==
    IF Len(inv.objv) = 0 THEN << >>
    ELSE IF Len(Words) = 1 /\ DictKeyExists(inv.vars, "args") THEN ListElems(inv.vars["args"])
    ELSE ListElems(inv.objv[Len(inv.objv)])

\* the tokens the switch loop is given: the arguments without the ones
\* forced to be parameters
SwitchArgs == ForceRequired(inv.ctx, inv.cashed, GivenArgs).argv

\* the token can only be a switch no element stands for
BadSwitch(tok) ==
    /\ EvalMatchRegexpGroups(inv.ctx, tok).matched
    /\ ~SwitchLookup(inv.ctx, inv.last, EvalMatchRegexpGroups(inv.ctx, tok).name).found

\* n tokens are enough for the required parameters of the definition a and
\* not too many for its parameters
Fits(a, n) ==
    LET named == SelectSeq(a.orderList, LAMBDA p : p # "")
        required == SelectSeq(named, LAMBDA p : NestedDictKeyExists(a.defDict, p, "required"))
    IN  /\ Len(required) <= n
        /\ \/ n <= Len(named)
           \/ a.catchall # << >>
           \/ ODictKeyExists(a.defDict, "")

\* the variables the caller had when it made the call
CallerVars ==
    IF \E u \in Usages : u.objv = inv.objv
    THEN (CHOOSE u \in Usages : u.objv = inv.objv).vars
    ELSE EmptyDict

\* the variables of the caller other than the three that the evaluation of
\* a -validate expression uses are the ones it had, with their values
NothingBound ==
    \A k \in DOMAIN inv.vars \ {"opt", "name", "arg"} :
        DictKeyExists(CallerVars, k) /\ inv.vars[k] = CallerVars[k]

Elements == {inv.last.defDict.k[i] : i \in 1..Len(inv.last.defDict.k)} \ {""}

\* the element received something of the arguments: a switch of the
\* arguments stood for it, or tokens were allocated to it
Received(name) ==
    \/ \E i \in 1..Len(inv.trace) : inv.trace[i][2] = name
    \/ DictKeyExists(inv.allocDict, name) /\ inv.allocDict[name] > 0

\* the names the element lists under the constraint c as the invocation ends
Listed(name, c) ==
    IF NestedDictKeyExists(inv.last.defDict, name, c)
    THEN {ListElems(inv.last.defDict.v[name][c])[j]
          : j \in 1..Len(ListElems(inv.last.defDict.v[name][c]))}
    ELSE {}

\* C2: an invocation in which an element that received arguments requires
\* an element that received none, or forbids one that received some, fails,
\* and with the message of such a pair
C2_RequireForbid ==
    /\ inv.pc = "done"
          => \A e \in Elements :
                 Received(e) => /\ \A o \in Listed(e, "require") : Received(o)
                                /\ \A o \in Listed(e, "forbid") : ~Received(o)
    /\ Failed({"constraint"})
          => \E e \in Elements :
                 /\ Received(e)
                 /\ \/ \E o \in Listed(e, "require") :
                           /\ ~Received(o)
                           /\ inv.msg = DashName(inv.last.defDict, e) \o " requires "
                                            \o DashName(inv.last.defDict, o)
                    \/ \E o \in Listed(e, "forbid") :
                           /\ Received(o)
                           /\ inv.msg = DashName(inv.last.defDict, e) \o " conflicts with "
                                            \o DashName(inv.last.defDict, o)

\* C3: an invocation in which an element that received arguments declares
\* -allow and another element that received arguments is not in the list
\* fails, and with the message of such a pair; the element itself is always
\* allowed.  The default pass-through element counts when a switch was passed
\* through to it
C3_Allow ==
    /\ inv.pc = "done"
          => \A e \in Elements :
                 (Received(e) /\ NestedDictKeyExists(inv.last.defDict, e, "allow"))
                     => \A o \in Elements \ {e} : Received(o) => o \in Listed(e, "allow")
    /\ Failed({"allow"})
          => \E e \in Elements : \E o \in (Elements \cup {""}) \ {e} :
                 /\ Received(e) /\ NestedDictKeyExists(inv.last.defDict, e, "allow")
                 /\ Received(o) /\ o \notin Listed(e, "allow")
                 /\ inv.msg = e \o " doesn't allow " \o o

(***************************************************************************)
(* The allocation of the parameters                                        *)
(***************************************************************************)
\* the parameters of the definition, in the order of the allocation
Params == SelectSeq(inv.last.orderList, LAMBDA p : p # "")

IsRequired(p) == NestedDictKeyExists(inv.last.defDict, p, "required")

IsCatchall(p) == NestedDictKeyExists(inv.last.defDict, p, "catchall")

\* the optional parameters that are no catchall, as indexes of Params
Optionals == {i \in 1..Len(Params) : ~IsRequired(Params[i]) /\ ~IsCatchall(Params[i])}

\* the number of tokens the required and the optional parameters can take
Capacity == Cardinality({i \in 1..Len(Params) : IsRequired(Params[i])})
                + Cardinality(Optionals)

\* the number of tokens due to the j-th parameter when n tokens are given:
\* one to a required parameter, one to an optional one while tokens remain,
\* and what is left to the catchall
Due(j, n) ==
    (IF IsRequired(Params[j]) THEN 1
     ELSE IF j \in Optionals
             /\ Cardinality({i \in Optionals : i <= j}) <= n - (Capacity - Cardinality(Optionals))
     THEN 1 ELSE 0)
        + (IF IsCatchall(Params[j]) /\ n > Capacity THEN n - Capacity ELSE 0)

\* the number of tokens due to the parameters before the j-th
RECURSIVE Offset(_, _)
Offset(j, n) == IF j = 1 THEN 0 ELSE Offset(j - 1, n) + Due(j - 1, n)

\* the j-th parameter holds under its key the tokens due to it, in their
\* order; a value chosen with -enum is stored in its full form and is not
\* compared
HoldsDue(j, n) ==
    LET opt == inv.last.defDict.v[Params[j]]
        toks == SubSeq(inv.params, Offset(j, n) + 1, Offset(j, n) + Due(j, n))
    IN  (DictKeyExists(opt, "key") /\ ~DictKeyExists(opt, "enum")
            /\ ~DictKeyExists(opt, "default"))
            => IF Due(j, n) > 0
               THEN /\ ODictKeyExists(inv.resultDict, opt["key"])
                    /\ inv.resultDict.v[opt["key"]]
                           = IF IsCatchall(Params[j]) THEN TclList(toks) ELSE toks[1]
               ELSE IF IsCatchall(Params[j])
               THEN /\ ODictKeyExists(inv.resultDict, opt["key"])
                    /\ inv.resultDict.v[opt["key"]] = ""
               ELSE ~ODictKeyExists(inv.resultDict, opt["key"])

\* the excess tokens are the last of the list under the default
\* pass-through key
ExcessPassed(n) ==
    LET passed == ListElems(inv.resultDict.v[inv.last.defDict.v[""]["pass"]])
    IN  /\ Len(passed) >= n - Capacity
        /\ SubSeq(passed, Len(passed) - (n - Capacity) + 1, Len(passed))
               = SubSeq(inv.params, Capacity + 1, n)

\* C4: the tokens that are parameters go to the parameters in the order of
\* the definition: one to each required parameter, then one to each optional
\* parameter that is no catchall while tokens remain, then the rest to the
\* catchall, or else to the default pass-through key, or else the invocation
\* fails with "too many arguments"; each parameter holds its tokens in
\* their order, and without switches the tokens are the arguments
C4_AllocationOrder ==
    /\ inv.pc = "done"
          => /\ Fits(inv.last, Len(inv.params))
             /\ \A j \in 1..Len(Params) : HoldsDue(j, Len(inv.params))
             /\ (Len(inv.params) > Capacity /\ inv.last.catchall = << >>)
                   => ExcessPassed(Len(inv.params))
             /\ Len(inv.cashed.switchesList) = 0 => inv.params = GivenArgs
    /\ (Failed({"allocation"}) /\ inv.msg = "too many arguments")
          => /\ Len(inv.params) > Capacity
             /\ inv.last.catchall = << >>
             /\ ~ODictKeyExists(inv.last.defDict, "")
    /\ (Failed({"allocation"}) /\ inv.msg # "too many arguments")
          => Len(inv.params) < Capacity - Cardinality(Optionals)

\* one required parameter and a catchall share three tokens
C4_Witness ==
    /\ inv.pc = "done"
    /\ Params = << "r", "c" >> /\ IsRequired("r") /\ IsCatchall("c") /\ ~IsRequired("c")
    /\ Len(inv.params) = 3
    /\ inv.resultDict.v["r"] = inv.params[1]
    /\ inv.resultDict.v["c"] = TclList(SubSeq(inv.params, 2, 3))

(***************************************************************************)
(* The required parameters                                                 *)
(***************************************************************************)
Required == SelectSeq(Params, IsRequired)

\* the invocation came to an end in the matching of the arguments or after
Finished == inv.pc = "done" \/ Failed(MatchingErrors \cup {"parameter"})

\* C5: a required parameter that is no catchall is given one token, and in
\* the result it holds that token under its key, as the validation returns
\* it; and when the tokens are fewer than the required parameters the
\* allocation fails with "missing required parameter" and the names of the
\* parameters left without a token, so that no invocation gets past the
\* allocation with a required parameter left out.  The errors that come
\* before the allocation in the order of the errors are raised before it
C5_RoundTrip ==
    /\ inv.pc = "done"
          => \A j \in 1..Len(Params) :
                 LET opt == inv.last.defDict.v[Params[j]]
                 IN  (IsRequired(Params[j]) /\ ~IsCatchall(Params[j])
                         /\ DictKeyExists(opt, "key"))
                         => /\ Due(j, Len(inv.params)) = 1
                            /\ ODictKeyExists(inv.resultDict, opt["key"])
                            /\ inv.resultDict.v[opt["key"]]
                                   = ValidateHelper(inv.ctx, Params[j], opt,
                                                    inv.params[Offset(j, Len(inv.params)) + 1]).result
    /\ (Failed({"allocation"}) /\ Len(inv.params) < Len(Required))
          => inv.msg = BuildMissingParameterError(
                           SubSeq(Required, Len(inv.params) + 1, Len(Required)))
    /\ (inv.pc = "done" \/ Failed({"constraint", "allow", "parameter"}))
          => Len(inv.params) >= Len(Required)

\* two required parameters are left without a token
C5_Witness ==
    /\ Failed({"allocation"})
    /\ Len(Required) - Len(inv.params) = 2

(***************************************************************************)
(* The resolution of the switches                                          *)
(***************************************************************************)
\* the names of the switches of the definition
SwitchNames ==
    {inv.cashed.defDict.k[i] : i \in {x \in 1..Len(inv.cashed.defDict.k) :
        DictKeyExists(inv.cashed.defDict.v[inv.cashed.defDict.k[x]], "switch")}}

\* the switches the name n is a prefix of
Candidates(n) == {e \in SwitchNames : StartsWith(e, n)}

\* the name a switch token carries
TokenName(arg) == EvalMatchRegexpGroups(inv.ctx, arg).name

\* the default pass-through key takes the switches no element stands for
PassDefined == HAS_GLOBAL_SWITCH(inv.ctx, GLOBAL_SWITCH_PASS)

\* C6: a switch token that carries the name of a switch stands for that
\* switch; when exact mode is off, one that carries a prefix of the name of
\* one switch only stands for that switch; and a prefix of the names of
\* several switches stands for none of them: it is rejected as a bad
\* switch, or passed through where a default pass-through key is defined
C6_SwitchResolution ==
    /\ \A i \in 1..Len(inv.trace) :
           LET n == TokenName(inv.trace[i][1])
               name == inv.trace[i][2]
           IN  /\ n \in SwitchNames => name = n
               /\ (n \notin SwitchNames /\ ~DictKeyExists(inv.cashed.aliasesDict, n))
                     => IF ~HAS_GLOBAL_SWITCH(inv.ctx, GLOBAL_SWITCH_EXACT)
                           /\ Cardinality(Candidates(n)) = 1
                        THEN name \in Candidates(n)
                        ELSE PassDefined /\ name = ""
    /\ (Failed({"switch"}) /\ \E arg \in {GivenArgs[j] : j \in 1..Len(GivenArgs)} :
                                  inv.msg = BuildBadSwitchError(arg, inv.last.switchesList))
          => \E arg \in {GivenArgs[j] : j \in 1..Len(GivenArgs)} :
                 /\ inv.msg = BuildBadSwitchError(arg, inv.last.switchesList)
                 /\ TokenName(arg) \notin SwitchNames
                 /\ ~DictKeyExists(inv.cashed.aliasesDict, TokenName(arg))
                 /\ \/ HAS_GLOBAL_SWITCH(inv.ctx, GLOBAL_SWITCH_EXACT)
                    \/ Cardinality(Candidates(TokenName(arg))) # 1

(***************************************************************************)
(* The cache of the definitions                                            *)
(***************************************************************************)
\* the invocation has a definition to work with: it came past the lookup
\* in the hash table
Served == inv.pc \notin {"idle"} /\ (inv.hit \/ DictKeyExists(firstParsed, inv.key))
              /\ inv.cashed # InitArgumentDefinition

\* C7: in the invocations on one interpreter the element definitions of a
\* key are parsed with success once at most, an invocation whose key was
\* parsed before finds its definition in the hash table, and what an
\* invocation copies is the structure the first parse of its key produced
C7_CompiledOnce ==
    /\ \A k \in DOMAIN parseCount : parseCount[k] <= 1
    /\ inv.hit => DictKeyExists(firstParsed, inv.key)
    /\ Served => inv.cashed = firstParsed[inv.key]

\* the second invocation with a key finds the definition in the hash table
C7_Witness ==
    /\ calls = 2 /\ inv.hit
    /\ parseCount[inv.key] = 1
    /\ inv.cashed = firstParsed[inv.key]

\* C8: the structure the hash table holds for a key is at every moment the
\* one its parse produced, whatever the invocations did to their copies
C8_CacheUnchanged ==
    \A k \in DOMAIN argDefHashTable :
        /\ argDefHashTable[k] \in DOMAIN heap
        /\ DictKeyExists(firstParsed, k)
        /\ heap[argDefHashTable[k]] = firstParsed[k]

\* an invocation served from the hash table has ended, with a working copy
\* that differs from the cached structure
C8_Witness ==
    /\ calls = 2 /\ inv.hit /\ inv.pc \in {"done", "error"}
    /\ inv.last # inv.cashed
    /\ inv.last.defDict # inv.cashed.defDict
    /\ heap[argDefHashTable[inv.key]] = inv.cashed

\* C9: after an invocation that failed with an error of the definition the
\* hash table holds no entry for the key of the invocation
C9_MalformedNeverCached ==
    Failed({"schema"}) => ~DictKeyExists(argDefHashTable, inv.key)

(***************************************************************************)
(* The scenarios                                                           *)
(***************************************************************************)
\* the invocation was made with the words objv and has ended
Ended(objv) == inv.objv = objv /\ inv.pc \in {"done", "error"}

\* C10 as the specification states it: with the definition
\* {flag -boolean} {name -required} the arguments -flag val give flag = 1
\* and name = val
C10_FlagWithoutDash ==
    Ended(<< "{flag -boolean} {name -required}", "-flag val" >>)
        => /\ inv.pc = "done"
           /\ inv.vars = [flag |-> "1", name |-> "val"]

\* C10: with the definition {-flag -boolean} {name -required}, in which
\* flag is a switch, the arguments -flag val succeed: -flag takes no
\* argument, val goes to name, and the result is flag 1 name val
C10_BooleanFlag ==
    Ended(<< "-inline", "{-flag -boolean} {name -required}", "-flag val" >>)
        => /\ inv.pc = "done"
           /\ inv.trace = << << "-flag", "flag" >> >>
           /\ inv.params = << "val" >>
           /\ inv.msg = "flag 1 name val"

\* the invocation of the scenario has ended
C10_Witness ==
    /\ Ended(<< "-inline", "{-flag -boolean} {name -required}", "-flag val" >>)
    /\ inv.resultDict.k = << "flag", "name" >>

Working == IF Running(inv) THEN heap[inv.argDefCtx] ELSE inv.last

\* the invocation has a working copy that went through the constraints
Prepared == Running(inv) \/ inv.pc = "done" \/ Failed(MatchingErrors \cup {"parameter"})

\* the switches of the arguments that the switch loop has matched
Matched == {inv.trace[i][2] : i \in 1..Len(inv.trace)}

\* a standalone switch was matched
StandaloneFired ==
    \E e \in Matched : NestedDictKeyExists(inv.cashed.defDict, e, "standalone")

\* two switches of the definition share a key and declare no value
SharedPlain(a, b) ==
    LET d == inv.cashed.defDict.v
    IN  /\ a \in SwitchNames /\ b \in SwitchNames /\ a # b
        /\ DictKeyExists(d[a], "key") /\ DictKeyExists(d[b], "key")
        /\ d[a]["key"] = d[b]["key"]
        /\ ~DictKeyExists(d[a], "value") /\ ~DictKeyExists(d[b], "value")

\* C12: of two switches that share a key and declare no value, the working
\* copy gives each its own name as value and, until a standalone switch is
\* matched, the other in its -forbid list; and an invocation that matched
\* both and came to the check of the constraints has failed there
C12_SharedKey ==
    Prepared =>
        \A a, b \in SwitchNames :
            SharedPlain(a, b)
                => /\ NestedDictKeyExists(Working.defDict, a, "value")
                   /\ Working.defDict.v[a]["value"] = a
                   /\ ~StandaloneFired
                         => /\ NestedDictKeyExists(Working.defDict, a, "forbid")
                            /\ InList(b, ListElems(Working.defDict.v[a]["forbid"]))
                   /\ ({a, b} \subseteq Matched /\ ~StandaloneFired)
                         => /\ inv.pc \notin {"store", "done"}
                            /\ ~Failed({"allow", "parameter"})

\* both switches of a shared key were matched, and the invocation failed
\* with the conflict of the two
C12_Witness ==
    /\ Failed({"constraint"})
    /\ \E a, b \in SwitchNames :
           /\ SharedPlain(a, b) /\ {a, b} \subseteq Matched
           /\ inv.msg = "-" \o a \o " conflicts with -" \o b

\* the names the element lists under the constraint c in the definition as
\* it was parsed
Declared(name, c) ==
    IF NestedDictKeyExists(inv.cashed.defDict, name, c)
    THEN {ListElems(inv.cashed.defDict.v[name][c])[j]
          : j \in 1..Len(ListElems(inv.cashed.defDict.v[name][c]))}
    ELSE {}

\* the element a makes its requirements reciprocal
Reciprocal(a) ==
    \/ HAS_GLOBAL_SWITCH(inv.ctx, GLOBAL_SWITCH_RECIPROCAL)
    \/ NestedDictKeyExists(inv.cashed.defDict, a, "reciprocal")

Processed(tok) ==
    \/ \E i \in 1..Len(inv.trace) : inv.trace[i][1] = tok
    \/ \E k \in DOMAIN inv.resultDict.v : InList(tok, ListElems(inv.resultDict.v[k]))
    \/ InList(tok, inv.params)

\* C15: when a switch with implied arguments was matched and the switch
\* loop came to its end without an error, every implied token was
\* processed: none was discarded, also when an implied switch took the
\* token after it as its argument
C15_ImpliedProcessed ==
    (inv.pc \in {"allocate", "check", "store", "done"}
        \/ Failed({"missing switch", "allocation", "constraint", "allow", "parameter"}))
        => \A e \in Matched :
               \A t \in Declared(e, "imply") : Processed(t)

\* the switch loop is at the token tok
AtToken(tok) == inv.pc = "switches" /\ Len(inv.argv) > 0 /\ inv.argv[1] = tok

\* C16: when the switch loop meets the token --, the switch phase ends: no
\* further token is matched as a switch, the tokens after the -- are the
\* parameters, in their order, and the allocation is given them together
\* with the tokens forced to be parameters
C16_DashDash ==
    [][/\ AtToken("--")
          => /\ inv'.pc = "allocate"
             /\ inv'.trace = inv.trace
             /\ inv'.params = Tail(inv.argv)
       /\ (inv.pc = "allocate" /\ (inv'.pc = "check" \/ inv'.kind = "allocation"))
          => /\ inv'.trace = inv.trace
             /\ inv'.params = IF HAS_GLOBAL_SWITCH(inv.ctx, GLOBAL_SWITCH_PFIRST)
                               THEN inv.force \o inv.params
                               ELSE inv.params \o inv.force]_vars

\* the arguments began with --, a switch of the definition came after it,
\* and the invocation ended with all the tokens after the -- as parameters
C16_Witness ==
    /\ inv.pc = "done" /\ inv.trace = << >>
    /\ Len(SwitchArgs) > 1 /\ SwitchArgs[1] = "--"
    /\ \E j \in 2..Len(SwitchArgs) :
           /\ EvalMatchRegexpGroups(inv.ctx, SwitchArgs[j]).matched
           /\ TokenName(SwitchArgs[j]) \in SwitchNames
    /\ inv.params = Tail(GivenArgs)

\* the sequence a is the beginning of the sequence b
IsPrefix(a, b) == Len(a) <= Len(b) /\ SubSeq(b, 1, Len(a)) = a

\* the invocation defers the tokens that do not look like switches
Deferring(i) ==
    HAS_GLOBAL_SWITCH(i.ctx, GLOBAL_SWITCH_MIXED) \/ HAS_GLOBAL_SWITCH(i.ctx, GLOBAL_SWITCH_PFIRST)

\* C17: in mixed or parameters-first mode a token that does not look like a
\* switch is put at the end of the parameters and the switch loop goes on,
\* and the tokens deferred so far stay the first of the parameters, in their
\* order, whatever token the loop meets next, a -- included
C17_DeferredKept ==
    [][(Deferring(inv) /\ inv.pc = "switches" /\ inv'.pc \in {"switches", "allocate"})
          => /\ IsPrefix(inv.params, inv'.params)
             /\ (/\ Len(inv.argv) > 0
                 /\ inv.argv[1] # "--"
                 /\ ~EvalMatchRegexpGroups(inv.ctx, inv.argv[1]).matched)
                => /\ inv'.pc = "switches"
                   /\ inv'.params = Append(inv.params, inv.argv[1])]_vars

(***************************************************************************)
(* The errors that name what is missing                                    *)
(***************************************************************************)
\* the orders in which the names of the set can be written
Orders(S) ==
    {s \in [1..Cardinality(S) -> S] : \A i, j \in 1..Cardinality(S) : i # j => s[i] # s[j]}

\* the names are written in the order of the sorting
InOrder(names) == \A i, j \in 1..Len(names) : i < j => ~StrLess(names[j], names[i])

\* the names joined as a sentence joins them
Joined(names) ==
    LET RECURSIVE Commas(_)
        Commas(i) == IF i >= Len(names) THEN "and " \o names[i]
                     ELSE names[i] \o ", " \o Commas(i + 1)
    IN  IF Len(names) = 1 THEN names[1]
        ELSE IF Len(names) = 2 THEN names[1] \o " and " \o names[2]
        ELSE Commas(1)

\* the required switches no token of the arguments stood for, as the error
\* writes them
NotGiven ==
    {IF DictKeyExists(inv.cashed.defDict.v[e], "alias")
     THEN BuildAliasJoinString(inv.cashed.defDict.v[e], e) ELSE "-" \o e
     : e \in {x \in SwitchNames : /\ DictKeyExists(inv.cashed.defDict.v[x], "required")
                                  /\ x \notin Matched}}

\* the required parameters left without a token, in the order of the definition
MissingParameters == SubSeq(Required, Len(inv.params) + 1, Len(Required))

\* the error writes the names after the word and its plural ending
Names(word, plural, names) ==
    inv.msg = word \o (IF Len(names) > 1 THEN plural ELSE "") \o ": " \o Joined(names)

\* C18 as the specification states it: the error of the missing required
\* switches and the error of the missing required parameters name all the
\* missing ones, sorted, two joined with "and", three or more with commas
\* and a last "and"
C18_SortedNames ==
    /\ Failed({"missing switch"})
          => \E names \in Orders(NotGiven) :
                 InOrder(names) /\ Names("missing required switch", "es", names)
    /\ (Failed({"allocation"}) /\ Len(inv.params) < Len(Required))
          => \E names \in Orders({MissingParameters[i] : i \in 1..Len(MissingParameters)}) :
                 InOrder(names) /\ Names("missing required parameter", "s", names)

\* C18 as the code has it: the missing required switches are named sorted,
\* the missing required parameters in the order of the definition, both
\* joined in the same way
C18_MissingNames ==
    /\ Failed({"missing switch"})
          => \E names \in Orders(NotGiven) :
                 InOrder(names) /\ Names("missing required switch", "es", names)
    /\ (Failed({"allocation"}) /\ Len(inv.params) < Len(Required))
          => Names("missing required parameter", "s", MissingParameters)

\* three required switches are missing, declared in another order than the
\* sorted one
C18_Witness ==
    /\ Failed({"missing switch"})
    /\ Cardinality(NotGiven) = 3
    /\ inv.msg = "missing required switches: -a, -b, and -c"
    /\ inv.cashed.switchesList[1] = "-c"

(***************************************************************************)
(* The aliases                                                             *)
(***************************************************************************)
\* the elements of the definition as they are written: the name and the
\* aliases of the first word of each
Written ==
    LET elems == inv.definition
        First(e) == IF Len(ListElems(e)) = 0 THEN "" ELSE ListElems(e)[1]
        Of(m) == [name |-> m.name,
                  aliases |-> IF m.matched /\ Len(m.alias) > 0
                              THEN {SplitString(m.alias, "|")[k]
                                    : k \in 1..Len(SplitString(m.alias, "|"))}
                              ELSE {}]
    IN  [i \in 1..Len(elems) |-> Of(regexpShorthand(First(elems[i])))]

\* an alias of one element is the name of another, or two elements declare
\* the same alias
AliasCollision ==
    \E i, j \in 1..Len(Written) :
        /\ i # j
        /\ \/ Written[j].name \in Written[i].aliases
           \/ Written[i].aliases \cap Written[j].aliases # {}

\* C19: a definition in which an alias of one switch is the name of another
\* element, or in which two elements declare the same alias, is rejected
\* when it is compiled, in whatever order the elements are written
C19_AliasCollisionRejected ==
    (AliasCollision /\ inv.pc # "idle") => Failed({"schema"})

(***************************************************************************)
(* The switches of the element definitions                                 *)
(***************************************************************************)
\* the word is the beginning of one element switch only, and is not one
Abbreviates(word) ==
    /\ Len(word) > 1
    /\ \A i \in 1..Len(elementSwitches) : elementSwitches[i] # word
    /\ Cardinality({i \in 1..Len(elementSwitches) : StartsWith(elementSwitches[i], word)}) = 1

\* the element switch the word stands for
FullName(word) ==
    IF Abbreviates(word)
    THEN elementSwitches[CHOOSE i \in 1..Len(elementSwitches) :
                             StartsWith(elementSwitches[i], word)]
    ELSE word

\* the places of the element switches among the words of an element: the
\* words after the first one, the arguments of the switches left out
RECURSIVE SwitchPlaces(_, _)
SwitchPlaces(words, j) ==
    IF j > Len(words) THEN {}
    ELSE {j} \cup SwitchPlaces(words,
                               IF \E i \in 1..Len(elementSwitchesWithArgsNames) :
                                      "-" \o elementSwitchesWithArgsNames[i] = FullName(words[j])
                               THEN j + 2 ELSE j + 1)

\* the element with its element switches written in full
InFull(elem) ==
    LET words == ListElems(elem)
        places == SwitchPlaces(words, 2)
    IN  TclList([j \in 1..Len(words) |->
                    IF j \in places THEN FullName(words[j]) ELSE words[j]])

\* an element of the definition has an abbreviated element switch
Abbreviated ==
    \E i \in 1..Len(inv.definition) :
        \E j \in SwitchPlaces(ListElems(inv.definition[i]), 2) :
            Abbreviates(ListElems(inv.definition[i])[j])

\* C20: a definition in which element switches are abbreviated, each to the
\* beginning of one element switch only, is compiled as the definition with
\* the element switches written in full is
C20_AttributePrefix ==
    (Abbreviated /\ inv.pc # "idle")
        => LET full == ParseElementDefinitions(
                           inv.ctx, [i \in 1..Len(inv.definition) |-> InFull(inv.definition[i])],
                           1, InitArgumentDefinition)
           IN  IF full.code = "ok"
               THEN inv.cashed = full.argCtx
               ELSE Failed({"schema"}) /\ inv.msg = full.msg

(***************************************************************************)
(* The words of the call                                                   *)
(***************************************************************************)
\* the global options of the call are read without an error
OptionsRead == ProcessGlobalOptions(inv.objv, 1, EmptyCtx).code = "ok"

\* the call has a definition, and the definition does not compile under the
\* global options of the call
Malformed ==
    /\ OptionsRead
    /\ Len(Words) > 0
    /\ LET elems == ListElems(Words[1])
       IN  \/ \E j \in 1..Len(elems) : Len(ListElems(elems[j])) = 0
           \/ ParseElementDefinitions(ProcessGlobalOptions(inv.objv, 1, EmptyCtx).ctx,
                                       PreprocessDefinition(elems, 1, FALSE), 1,
                                       InitArgumentDefinition).code = "error"

\* the call has not a definition and arguments: it has more than two words
\* after the global options, or none, or the definition only and the caller
\* has no variable args
WrongCount ==
    \/ Len(Words) = 0
    \/ Len(Words) > 2
    \/ Len(Words) = 1 /\ ~DictKeyExists(inv.vars, "args")

\* nothing was compiled and nothing is cached
NothingCompiled == parseCount = EmptyDict /\ argDefHashTable = EmptyDict /\ heap = EmptyDict

\* C21 as the specification states it: a call with a definition that does
\* not compile and with a wrong number of words fails with the error of the
\* definition
C21_SchemaFirst ==
    (inv.pc # "idle" /\ Malformed /\ WrongCount) => Failed({"schema"})

\* C21 as the code has it: a call with a wrong number of words fails with
\* the error of the count, and its definition is not compiled, whether it
\* is well formed or not
C21_CountFirst ==
    (inv.pc # "idle" /\ OptionsRead /\ WrongCount)
        => /\ Failed({"usage"})
           /\ inv.msg = IF Len(Words) = 0 THEN "missing required parameter: definition"
                        ELSE IF Len(Words) = 1 THEN "Variable 'args' not found"
                        ELSE "too many arguments"
           /\ NothingCompiled

\* a call with a definition that does not compile and one word too many
\* has failed with "too many arguments"
C21_Witness ==
    /\ Malformed /\ Len(Words) = 3
    /\ Failed({"usage"}) /\ inv.msg = "too many arguments"

(***************************************************************************)
(* The boolean switches                                                    *)
(***************************************************************************)
\* the element switches written in the element i of the definition, without
\* their dash
Attributes(i) ==
    LET words == ListElems(inv.definition[i])
    IN  {Tail(words[j]) : j \in SwitchPlaces(words, 2)}

\* the first word of the element i of the definition, read as a shorthand
Shorthand(i) == regexpShorthand(ListElems(inv.definition[i])[1])

\* the element i of the definition is written as a boolean switch: it
\* declares -boolean, or the global option -boolean is set and it is a
\* switch written without an argument, a default, a value, -required or
\* -upvar
BooleanStyle(i) ==
    /\ Shorthand(i).matched
    /\ Shorthand(i).minus = "-" \/ "switch" \in Attributes(i)
    /\ \/ "boolean" \in Attributes(i)
       \/ /\ HAS_GLOBAL_SWITCH(inv.ctx, GLOBAL_SWITCH_BOOLEAN)
          /\ Shorthand(i).flags = ""
          /\ Attributes(i) \cap {"argument", "default", "value", "required", "upvar",
                                  "optional", "catchall", "type"} = {}

\* the definition of the invocation was compiled
Compiled == inv.pc # "idle" /\ ~Failed({"usage", "schema"})

\* C22: a switch that declares -boolean, or under the global option -boolean
\* a switch without an argument, a default, a value, -required or -upvar, is
\* compiled with the default 0 and the value 1 wherever -boolean stands
\* among its element switches, and the result of the invocation holds under
\* its key 1 when the switch was given and 0 when it was not
C22_BooleanSwitch ==
    Compiled
        => \A i \in 1..Len(inv.definition) :
               BooleanStyle(i)
                   => LET name == Shorthand(i).name
                          opt == inv.cashed.defDict.v[name]
                      IN  /\ DictKeyExists(opt, "default") /\ opt["default"] = "0"
                          /\ DictKeyExists(opt, "value") /\ opt["value"] = "1"
                          /\ (inv.pc = "done" /\ DictKeyExists(opt, "key"))
                                 => /\ ODictKeyExists(inv.resultDict, opt["key"])
                                    /\ inv.resultDict.v[opt["key"]]
                                           = IF name \in Matched THEN "1" ELSE "0"

\* under the global option -boolean a switch with a key of its own was
\* given and another left out, and the result holds 1 and 0 for them
C22_Witness ==
    /\ inv.pc = "done"
    /\ HAS_GLOBAL_SWITCH(inv.ctx, GLOBAL_SWITCH_BOOLEAN)
    /\ \E i, j \in 1..Len(inv.definition) :
           /\ BooleanStyle(i) /\ BooleanStyle(j)
           /\ Shorthand(i).name \in Matched /\ Shorthand(j).name \notin Matched
           /\ "key" \in Attributes(i)
           /\ inv.resultDict.v[inv.cashed.defDict.v[Shorthand(i).name]["key"]] = "1"
           /\ inv.resultDict.v[inv.cashed.defDict.v[Shorthand(j).name]["key"]] = "0"

(***************************************************************************)
(* The references of the constraints                                       *)
(***************************************************************************)
\* the references of the compiled definition to elements that are not
\* defined: the element e names n under the constraint c
Dangling ==
    LET def == inv.cashed.defDict
        Refs(e, c) == ListElems(def.v[e][c])
    IN  UNION {UNION {{[e |-> e, c |-> c, n |-> Refs(e, c)[k]]
                       : k \in {x \in 1..Len(Refs(e, c)) :
                                   ~ODictKeyExists(def, Refs(e, c)[x])}}
                      : c \in {x \in {"require", "forbid", "allow"} :
                                  DictKeyExists(def.v[e], x)}}
               : e \in DOMAIN def.v}

\* C23: a definition in which a require, forbid or allow list names an
\* element that is not defined is rejected, whatever the arguments are, with
\* an error that names such a reference, and none of the arguments is matched
C23_UndefinedReference ==
    (inv.pc # "idle" /\ Dangling # {})
        => /\ Failed({"schema"})
           /\ \E r \in Dangling :
                  inv.msg = r.e \o " -" \o r.c \o " references undefined element: " \o r.n
           /\ inv.trace = << >> /\ inv.allocDict = EmptyDict /\ inv.resultDict = EmptyODict

\* a definition with an allow list that names an undefined element was
\* rejected though the arguments gave the switches of the definition only
C23_Witness ==
    /\ Failed({"schema"})
    /\ \E r \in Dangling : r.c = "allow"
    /\ Len(GivenArgs) > 1

(***************************************************************************)
(* The global options that exclude one another                             *)
(***************************************************************************)
\* the global options of the call, as they are read
Given == ProcessGlobalOptions(inv.objv, 1, EmptyCtx).ctx

\* the definition of the call has an empty element
EmptyElement ==
    /\ Len(Words) > 0
    /\ \E j \in 1..Len(ListElems(Words[1])) : Len(ListElems(ListElems(Words[1])[j])) = 0

Entries == ListElems(Words[1])

\* the words of each of the entries
EntryWords(entries) == [j \in 1..Len(entries) |-> ListElems(entries[j])]

\* the entry j begins with the word #
Hashed(words, j) == words[j][1] = "#"

\* the entry j is the word # alone
Marker(words, j) == words[j] = << "#" >>

\* the entries at the indexes of the set, in their order
Among(entries, keep) ==
    [k \in 1..Cardinality(keep) |->
        entries[CHOOSE j \in keep : Cardinality({i \in keep : i < j}) = k - 1]]

\* the definition list of the call was read: the count of the words was
\* right, no element was empty and no global options were in conflict
DefinitionRead == inv.pc # "idle" /\ inv.key # ""

\* C25 as the specification states it: the elements of the definition are
\* the entries that are no marker # and do not come next after a marker
C25_NextEntrySkipped ==
    DefinitionRead
        => LET words == EntryWords(Entries)
           IN  inv.definition
                   = Among(Entries, {j \in 1..Len(words) :
                                        ~Marker(words, j)
                                            /\ (j = 1 \/ ~Marker(words, j - 1))})

\* C25 as the code has it: an entry that begins with # is no element,
\* whatever follows the # in it; after a marker # the first entry that
\* does not begin with # is skipped, and the entries after that one are
\* read again
C25_Comments ==
    DefinitionRead
        => LET words == EntryWords(Entries)
           IN  inv.definition
                   = Among(Entries, {j \in 1..Len(words) :
                                        /\ ~Hashed(words, j)
                                        /\ ~\E m \in 1..(j - 1) :
                                               /\ Marker(words, m)
                                               /\ \A n \in (m + 1)..(j - 1) :
                                                      Hashed(words, n)})

\* a definition with a marker after a marker and with a comment after a
\* marker was read, and the entry after each skipped one is an element
C25_Witness ==
    /\ inv.pc = "done"
    /\ \E j \in 2..Len(Entries) :
           Marker(EntryWords(Entries), j) /\ Marker(EntryWords(Entries), j - 1)
    /\ \E j \in 2..Len(Entries) :
           /\ Hashed(EntryWords(Entries), j) /\ ~Marker(EntryWords(Entries), j)
           /\ Marker(EntryWords(Entries), j - 1)
    /\ inv.definition = << "-a", "-c", "-h" >>

(***************************************************************************)
(* The end of the invocation                                               *)
(***************************************************************************)
\* C26: an invocation that has been entered comes to its return, with a
\* result or with an error, also when a switch implies itself or switches
\* imply one another in a circle
C26_Terminates == Running(inv) ~> (inv.pc \in {"done", "error"})

\* an invocation has returned a result after a switch that implies itself,
\* or that is implied by a switch it implies, was processed twice
C26_Witness ==
    /\ inv.pc = "done"
    /\ \E i, j \in 1..Len(inv.trace) :
           /\ i < j
           /\ inv.trace[i][2] = inv.trace[j][2]
           /\ NestedDictKeyExists(inv.cashed.defDict, inv.trace[i][2], "imply")
    /\ Len(SelectSeq(GivenArgs, LAMBDA t : t = "-a")) = 1

(***************************************************************************)
(* The values of an enumeration                                            *)
(***************************************************************************)
\* the entries of the enumeration of the element
EnumOf(name) == ListElems(inv.cashed.defDict.v[name]["enum"])

\* the element is defined with an enumeration
HasEnum(name) == DictKeyExists(inv.cashed.defDict.v[name], "enum")

\* the entries the value v stands for: v itself when it is an entry, else,
\* when exact mode is off, the one entry that begins with v; with empty, a
\* value of no characters counts as the beginning of an entry
Canonical(name, v, empty) ==
    LET entries == {EnumOf(name)[i] : i \in 1..Len(EnumOf(name))}
        begun == {e \in entries : IsPrefix(v, e)}
    IN  IF v \in entries THEN {v}
        ELSE IF HAS_GLOBAL_SWITCH(inv.ctx, GLOBAL_SWITCH_EXACT) THEN {}
        ELSE IF Cardinality(begun) = 1 /\ (empty \/ Len(v) > 0) THEN begun
        ELSE {}

\* the values given to the parameter j of the definition
GivenTo(j) ==
    SubSeq(inv.params, Offset(j, Len(inv.params)) + 1,
           Offset(j, Len(inv.params)) + Due(j, Len(inv.params)))

\* the parameters with an enumeration hold the entries their values stand for
ParametersCanonical(empty) ==
    \A j \in 1..Len(Params) :
        LET opt == inv.cashed.defDict.v[Params[j]]
            given == GivenTo(j)
        IN  (HasEnum(Params[j]) /\ Len(given) > 0)
               => /\ \A k \in 1..Len(given) : Canonical(Params[j], given[k], empty) # {}
                  /\ DictKeyExists(opt, "key")
                        => LET held == [k \in 1..Len(given) |->
                                           CHOOSE e \in Canonical(Params[j], given[k], empty)
                                               : TRUE]
                           IN  inv.resultDict.v[opt["key"]]
                                   = IF IsCatchall(Params[j]) THEN TclList(held) ELSE held[1]

\* the value the switch token at the head of the queue is given: the value
\* after its =, or else the token after it
SuppliedTo(arg) ==
    IF EvalMatchRegexpGroups(inv.ctx, arg).equal = "="
    THEN << EvalMatchRegexpGroups(inv.ctx, arg).val >>
    ELSE SubSeq(inv.argv, 2, IF Len(inv.argv) > 1 THEN 2 ELSE 1)

\* the pass of the switch loop over a switch with an enumeration that takes
\* one value: the value is stored as the entry it stands for, in the list
\* wrapped(entry), or the invocation fails
SwitchCanonical(empty, Wrapped(_, _)) ==
    (inv.pc = "switches" /\ Len(inv'.trace) = Len(inv.trace) + 1)
       => LET name == inv'.trace[Len(inv'.trace)][2]
              opt == inv.cashed.defDict.v[name]
              given == SuppliedTo(inv.argv[1])
          IN  (/\ ODictKeyExists(inv.cashed.defDict, name) /\ HasEnum(name)
               /\ DictKeyExists(opt, "argument") /\ ~DictKeyExists(opt, "catchall")
               /\ Len(given) = 1)
                 => IF Canonical(name, given[1], empty) = {}
                    THEN inv'.pc = "error"
                    ELSE /\ inv'.pc # "error" \/ DictKeyExists(opt, "type")
                         /\ (inv'.pc # "error" /\ DictKeyExists(opt, "key"))
                               => \E e \in Canonical(name, given[1], empty) :
                                      inv'.resultDict.v[opt["key"]] = Wrapped(opt, e)

\* C27 as the specification states it: a value that is an entry of the
\* enumeration of its element, or, when exact mode is off, the beginning of
\* one entry only, is stored as that entry, and any other value makes the
\* invocation fail
C27_EnumCanonical ==
    [][/\ SwitchCanonical(TRUE, LAMBDA opt, e : e)
       /\ (inv'.pc = "done") => ParametersCanonical(TRUE)']_vars

\* C27 as the code has it: the value has to be an entry or, when exact mode
\* is off, the beginning of one entry only and of one character at least; a
\* switch declared optional holds the list of the empty string and the entry
C27_EnumValue ==
    [][/\ SwitchCanonical(FALSE, LAMBDA opt, e : IF DictKeyExists(opt, "optional")
                                                THEN TclList(<< "", e >>) ELSE e)
       /\ (inv'.pc = "done") => ParametersCanonical(FALSE)']_vars

\* a switch was given the beginning of one entry of its enumeration and
\* holds the entry
C27_Witness ==
    /\ inv.pc = "done"
    /\ GivenArgs = << "-c", "gre" >>
    /\ HasEnum("c") /\ EnumOf("c") = << "red", "green", "gray" >>
    /\ inv.resultDict.v["c"] = "green"

(***************************************************************************)
(* The switch that is given no argument                                    *)
(***************************************************************************)
\* the pass of the switch loop over a switch that takes an argument, with
\* no value after its = and no token after it: the invocation fails with
\* the message of the switch, unless the switch is optional, or is one of
\* the others, and then it goes on with the empty string for the switch
NoArgument(others) ==
    (inv.pc = "switches" /\ Len(inv'.trace) = Len(inv.trace) + 1)
       => LET name == inv'.trace[Len(inv'.trace)][2]
              opt == inv.cashed.defDict.v[name]
          IN  (/\ ODictKeyExists(inv.cashed.defDict, name)
               /\ DictKeyExists(opt, "argument")
               /\ SuppliedTo(inv.argv[1]) = << >>)
                 => IF DictKeyExists(opt, "optional") \/ name \in others
                    THEN /\ inv'.pc \in {"switches", "allocate"}
                         /\ DictKeyExists(opt, "key") => inv'.resultDict.v[opt["key"]] = ""
                    ELSE /\ inv'.pc = "error"
                         /\ inv'.msg = "-" \o name \o " requires an argument"

\* the switches of the definition that are catchalls
CatchallSwitches == {e \in SwitchNames : DictKeyExists(inv.cashed.defDict.v[e], "catchall")}

\* C28 as the specification states it: a switch that takes an argument and
\* finds no token left for it makes the invocation fail with "-name requires
\* an argument", unless it is declared optional: then the invocation goes on
\* and the switch holds the empty string
C28_RequiresArgument == [][NoArgument({})]_vars

\* C28 as the code has it: a switch that is a catchall takes the tokens that
\* are left, and when none is left it holds the empty list and the
\* invocation goes on
C28_NoArgument == [][NoArgument(CatchallSwitches)]_vars

\* the last token was a switch that takes an argument and is not optional,
\* and the invocation failed with the message of the switch
C28_Witness ==
    /\ Failed({"switch"})
    /\ GivenArgs = << "-s", "v", "-s" >>
    /\ DictKeyExists(inv.cashed.defDict.v["s"], "argument")
    /\ ~DictKeyExists(inv.cashed.defDict.v["s"], "optional")
    /\ inv.trace = << << "-s", "s" >>, << "-s", "s" >> >>
    /\ inv.msg = "-s requires an argument"

(***************************************************************************)
(* The elements that share a key                                           *)
(***************************************************************************)
\* the elements of the definition as it was compiled
Defined == {inv.cashed.defDict.k[i] : i \in 1..Len(inv.cashed.defDict.k)}

\* the two elements of the definition have the same key
SameKey(d, e) ==
    /\ d # e
    /\ DictKeyExists(inv.cashed.defDict.v[d], "key")
    /\ DictKeyExists(inv.cashed.defDict.v[e], "key")
    /\ inv.cashed.defDict.v[d]["key"] = inv.cashed.defDict.v[e]["key"]

\* the element may not share its key: it is a parameter, takes an argument
\* or is a catchall
Unshareable(e) ==
    \E x \in {"parameter", "argument", "catchall"} : DictKeyExists(inv.cashed.defDict.v[e], x)

\* C29: when two elements of the definition have the same key and one of
\* the two, whichever of them is defined first, is a parameter, takes an
\* argument or is a catchall, or both have a default, the invocation fails
\* with an error of the definition, whatever its arguments are
C29_SharedKeyRejected ==
    (inv.pc # "idle" /\ inv.cashed.defDict.k # << >>)
       => \A d, e \in Defined :
              (/\ SameKey(d, e)
               /\ \/ Unshareable(d)
                  \/ Unshareable(e)
                  \/ /\ DictKeyExists(inv.cashed.defDict.v[d], "default")
                     /\ DictKeyExists(inv.cashed.defDict.v[e], "default"))
                 => Failed({"schema"})

\* the definition was rejected for the element defined last of two that
\* share a key, and the one defined first could have shared it
C29_Witness ==
    /\ Failed({"schema"})
    /\ inv.cashed.defDict.k = << "b", "a" >>
    /\ SameKey("a", "b")
    /\ Unshareable("a") /\ ~Unshareable("b")
    /\ inv.msg = "a cannot use -argument because it shares a key with b"

(***************************************************************************)
(* The switches that are passed through                                    *)
(***************************************************************************)
\* the name the switch token stands for, its alias resolved
Aliased(arg) ==
    IF DictKeyExists(inv.cashed.aliasesDict, TokenName(arg))
    THEN inv.cashed.aliasesDict[TokenName(arg)]
    ELSE TokenName(arg)

\* the token looks like a switch and is the name of no switch, and is not
\* the beginning of the name of one switch only
Unmatched(arg) ==
    /\ EvalMatchRegexpGroups(inv.ctx, arg).matched
    /\ Aliased(arg) \notin SwitchNames
    /\ Cardinality(Candidates(Aliased(arg))) # 1

\* the list under the default pass-through key in the result of i
PassedOn(i) ==
    IF ODictKeyExists(i.resultDict, GLOBAL_SWITCH_ARG(i.ctx, GLOBAL_SWITCH_PASS))
    THEN ListElems(i.resultDict.v[GLOBAL_SWITCH_ARG(i.ctx, GLOBAL_SWITCH_PASS)])
    ELSE << >>

\* the switch loop passes the token at the head of the queue through: the
\* invocation goes on, the token stands for the default pass-through
\* element and is the last of the list under the default pass-through key
PassesThrough ==
    /\ inv'.pc \in {"switches", "allocate"}
    /\ inv'.trace = Append(inv.trace, << inv.argv[1], "" >>)
    /\ PassedOn(inv') = Append(PassedOn(inv), inv.argv[1])

\* C30: with a default pass-through key, a token that looks like a switch
\* and stands for no switch of the definition, by its name or by the
\* beginning of one name only, does not make the invocation fail: it is
\* passed through, also when it carries a value after an =
C30_PassThrough ==
    [][(inv.pc = "switches" /\ Len(inv.argv) > 0 /\ PassDefined /\ Unmatched(inv.argv[1]))
          => PassesThrough]_vars

(***************************************************************************)
(* The tokens forced to be parameters                                      *)
(***************************************************************************)
\* the number of tokens held back for the required parameters of the
\* definition the call compiled
Held ==
    LET required == {i \in 1..Len(inv.cashed.orderList) :
                        NestedDictKeyExists(inv.cashed.defDict,
                                            inv.cashed.orderList[i], "required")}
    IN  IF Cardinality(required) < Len(GivenArgs)
        THEN Cardinality(required) ELSE Len(GivenArgs)

\* the parameters are wanted before the switches
ParametersFirst == HAS_GLOBAL_SWITCH(inv.ctx, GLOBAL_SWITCH_PFIRST)

\* the tokens held back: the last ones, or the first ones when the
\* parameters come first
HeldTokens ==
    IF ParametersFirst THEN SubSeq(GivenArgs, 1, Held)
    ELSE SubSeq(GivenArgs, Len(GivenArgs) - Held + 1, Len(GivenArgs))

\* the other tokens, the ones the switch phase is given
ScannedTokens ==
    IF ParametersFirst THEN SubSeq(GivenArgs, Held + 1, Len(GivenArgs))
    ELSE SubSeq(GivenArgs, 1, Len(GivenArgs) - Held)

\* the step is taken as it would be were no token held back
BlindToHeld ==
    SwitchStep(Deref) = [SwitchStep([Deref EXCEPT !.force = << >>])
                             EXCEPT !.force = inv.force]

\* C31: unless the mode is mixed, the last R tokens of the arguments, R the
\* number of the required parameters, and in parameters-first mode the
\* first R tokens, are never examined by the switch phase, whatever they
\* look like: the queue of the switch phase starts as the other tokens, no
\* pass of the switch loop reads or changes the tokens held back, and the
\* allocation puts them after the tokens the switch phase left, in
\* parameters-first mode before them
C31_ForcedBypass ==
    [][/\ (~Running(inv) /\ Running(inv')
               /\ ~HAS_GLOBAL_SWITCH(inv'.ctx, GLOBAL_SWITCH_MIXED))
           => /\ inv'.force = HeldTokens'
              /\ inv'.argv = ScannedTokens'
       /\ inv.pc = "switches"
           => inv'.force = inv.force /\ BlindToHeld
       /\ (inv.pc = "allocate" /\ ~(inv'.pc = "error" /\ inv'.kind = "missing switch"))
           => inv'.params = IF ParametersFirst THEN inv.force \o inv.params
                            ELSE inv.params \o inv.force]_vars

\* in the default mode a token that names a switch of the definition was
\* held back after the same switch was matched, and the parameter holds it
C31_Witness ==
    /\ inv.pc = "done"
    /\ ~ParametersFirst /\ ~HAS_GLOBAL_SWITCH(inv.ctx, GLOBAL_SWITCH_MIXED)
    /\ GivenArgs = << "-s", "-s" >>
    /\ inv.trace = << << "-s", "s" >> >>
    /\ inv.force = << "-s" >>
    /\ DictKeyExists(inv.resultDict.v, "p") /\ inv.resultDict.v["p"] = "-s"

(***************************************************************************)
(* The elements the sweep of the constraints takes as present              *)
(***************************************************************************)
\* the allocation is over and the sweep of the constraints has its input
Allocated == inv.pc \in {"check", "store", "done"} \/ Failed({"constraint", "allow"})

\* the element has the mark the sweep reads
Marked(e) == NestedDictKeyExists(Working.defDict, e, present)

\* the elements other than the ones of the set have the mark exactly when
\* they received something of the arguments
MarkedAsReceived(others) ==
    Allocated => \A e \in Elements \ others : Marked(e) <=> Received(e)

\* C32: the sweep of -require, -forbid and -allow takes an element as
\* present exactly when it received at least one token of the arguments or
\* a switch of the arguments stood for it; so does it a catchall parameter
\* that is not required and took the excess tokens
C32_PresentMark == MarkedAsReceived({})

(***************************************************************************)
(* The implied arguments of a switch                                       *)
(***************************************************************************)
\* the pass of the switch loop matched a switch and went on
Fired == inv.pc = "switches" /\ inv'.pc = "switches" /\ Len(inv'.trace) = Len(inv.trace) + 1

\* the switch the pass matched
FiredName == inv'.trace[Len(inv'.trace)][2]

\* the sequence a is an end of the sequence b
IsSuffix(a, b) == Len(a) <= Len(b) /\ SubSeq(b, Len(b) - Len(a) + 1, Len(b)) = a

\* C33: the implied arguments of a switch are put into the queue at most
\* once in an invocation: when a switch has been matched, the working copy
\* holds no -imply for it any more, and a pass that matches a switch that
\* was matched before only takes tokens off the queue
C33_ImplyOnce ==
    [][Fired
           => /\ ~NestedDictKeyExists(Working'.defDict, FiredName, "imply")
              /\ FiredName \in Matched => IsSuffix(inv'.argv, Tail(inv.argv))]_vars

\* the switch that implies itself was matched twice, once as the caller
\* wrote it and once as it implied itself, and the invocation ended
C33_Witness ==
    /\ inv.pc = "done"
    /\ inv.definition = << "-a -imply -a", "p?" >>
    /\ GivenArgs = << "-a" >>
    /\ inv.trace = << << "-a", "a" >>, << "-a", "a" >> >>

(***************************************************************************)
(* The variables of the caller of a failing invocation                     *)
(***************************************************************************)
\* C34: an invocation that fails leaves the variables of its caller as they
\* were: none is set and none is unset, wherever the error is raised
C34_ScopeUnchanged == inv.pc = "error" => inv.vars = CallerVars

(***************************************************************************)
(* The shorthand and the explicit notation of a switch                     *)
(***************************************************************************)
\* the element switch a flag character of the shorthand stands for
FlagSwitch(c) ==
    IF c = "=" THEN "-argument" ELSE IF c = "?" THEN "-optional"
    ELSE IF c = "!" THEN "-required" ELSE IF c = "*" THEN "-catchall" ELSE "-upvar"

\* the entry begins with the shorthand of a switch
SwitchShorthand(entry) ==
    /\ Len(ListElems(entry)) > 0
    /\ regexpShorthand(ListElems(entry)[1]).matched
    /\ regexpShorthand(ListElems(entry)[1]).minus = "-"

\* the entry with the shorthand written out: the name, -switch, -alias with
\* the list of the aliases when there are some, the element switches of the
\* flag characters, and then the words that followed the shorthand
Explicit(entry) ==
    LET words == ListElems(entry)
        m == regexpShorthand(words[1])
    IN  TclList(<< m.name, "-switch" >>
                    \o (IF m.alias = "" THEN << >>
                        ELSE << "-alias", TclList(SplitString(m.alias, "|")) >>)
                    \o [k \in 1..Len(m.flags) |-> FlagSwitch(CharAt(m.flags, k))]
                    \o Tail(words))

\* C35: the shorthand and the explicit notation compile to the same
\* element: an entry that begins with the shorthand of a switch, with its
\* leading -, its aliases joined by |, its name and its flag characters,
\* compiles to what the entry compiles to that has the name, -switch,
\* -alias with the aliases, and -argument, -optional, -required, -catchall,
\* -upvar for the flag characters = ? ! * ^; the parse reads nothing else
\* of the entry
C35_ShorthandExplicit ==
    (inv.pc \in {"done", "error"} /\ inv.key # "")
        => \A i \in 1..Len(inv.definition) :
               SwitchShorthand(inv.definition[i])
                   => ParseElement(inv.ctx, InitArgumentDefinition, inv.definition[i])
                          = ParseElement(inv.ctx, InitArgumentDefinition,
                                         Explicit(inv.definition[i]))

\* a definition whose one entry is a shorthand with two aliases and the
\* flag ! was parsed, and so is the entry written out
C35_Witness ==
    /\ inv.pc = "done"
    /\ inv.definition = << "-f|full|force!" >>
    /\ Explicit(inv.definition[1]) = "force -switch -alias {f full} -required"
    /\ ParseElement(inv.ctx, InitArgumentDefinition, Explicit(inv.definition[1])).code = "ok"
    /\ DictKeyExists(inv.resultDict.v, "force")

(***************************************************************************)
(* The key of the cache                                                    *)
(***************************************************************************)
\* the invocation got a definition from the cache, parsed by itself or by
\* an invocation before it
Supplied == inv.pc # "idle" /\ inv.key # "" /\ ~Failed({"usage", "schema"})

\* what the parse of the definition list of the invocation under its own
\* global options gives
OwnParse == ParseElementDefinitions(inv.ctx, inv.definition, 1, InitArgumentDefinition)

\* C36: two invocations that differ in the definition list without its
\* comments or in the global options and their values never have the same
\* key of the cache, so that the definition an invocation gets from the
\* cache is always the one its own definition list parses to under its own
\* global options
C36_SignatureInjective ==
    Supplied => OwnParse.code = "ok" /\ inv.cashed = OwnParse.argCtx

====
